---- MODULE Spec2Model ----
(***************************************************************************)
(* Ticket scheduler of ratellmiter (src/src/ratellmiter/rate_llmiter.py):  *)
(* one BucketRateLimiter driven by the RateLlmiterMonitor tick, caller     *)
(* threads going through the llmiter wrapper, and the probe timer thread.  *)
(*                                                                         *)
(* Every `with self.thread_safe_data.lock:` block is one atomic action, so *)
(* every state of the model is a state in which the limiter lock is free.  *)
(* What the code does outside the lock (Event.clear, Event.wait,           *)
(* Event.set, starting a timer) is an action of its own.                   *)
(*                                                                         *)
(* Python objects are shared by reference between the bucket lists and the *)
(* callers, so tickets live in a heap (a sequence of ticket records) and   *)
(* every list holds heap indices; copy.deepcopy allocates a new index.     *)
(***************************************************************************)
EXTENDS Integers, Sequences, FiniteSets, TLC

\* ---- bounds of the model ------------------------------------------------
\* number of ticks the monitor's timer performs
MaxClock == 3
\* seconds per minute bucket (60 in the source, range(60) and % 60)
SecondsPerMinute == 2
\* attempts of the wrapper's retry loop (RATE_LIMIT_RETRIES is 20 in the source)
RetryBudget == 2

\* a probe finds the upstream still blocked only while the interval is at most
\* this many milliseconds
MaxProbedInterval == 10000

\* ---- program constants --------------------------------------------------
\* intervals are kept in milliseconds so that 22.5 and 33.75 are integers
MIN_TEST_IF_SERVICE_RESUMED_INTERVAL == 10000
MAX_TEST_IF_SERVICE_RESUMED_INTERVAL == 65000
\* Python's None for optional integer fields
None == 0 - 1
\* the values of request_per_minute the limiter is constructed with
RequestPerMinuteSet == {60, 120}

\* the caller threads
Callers == {1, 2}

Max2(a, b) == IF a >= b THEN a ELSE b
Min2(a, b) == IF a <= b THEN a ELSE b

\* Python 3 round() of the non-negative rational num/den: ties go to even
PyRound(num, den) ==
    LET q == num \div den
        r == num % den
    IN  IF 2 * r < den THEN q
        ELSE IF 2 * r > den THEN q + 1
        ELSE IF q % 2 = 0 THEN q ELSE q + 1

\* list[i] with Python's 0-based index, negative i counting from the end
PyIndex(list, i) == IF i < 0 THEN list[Len(list) + i + 1] ELSE list[i + 1]

Last(list) == list[Len(list)]

\* ---- BucketRateLimiter.__init__ ----------------------------------------
MaxTicketsPerSecond(rpm) == IF rpm < 60 THEN 1 ELSE rpm \div 60

\* round() taking ties away from zero, as in arithmetic taught at school
RoundHalfUp(num, den) == (2 * num + den) \div (2 * den)

\* the start of the ramp with ties rounded up
StartRampTicketCountHalfUp(rpm) == IF rpm < 60 THEN 1 ELSE Max2(RoundHalfUp(rpm, 240), 1)

StartRampTicketCount(rpm) == IF rpm < 60 THEN 1 ELSE Max2(PyRound(rpm, 240), 1)

RampTicketCountDelta(rpm) == IF rpm < 60 THEN 1 ELSE Max2(PyRound(rpm, 600), 1)

VARIABLES
    request_per_minute,        \* BucketRateLimiter.request_per_minute
    heap,                      \* the RateLlmiterTicket objects, by allocation order
    current_minute_bucket,     \* <<>> is None, <<m>> is the MinuteTicketBucket m
    next_request_index,        \* BucketRateLimiterLock.next_request_index
    is_paused_by_rate_limit_exception,
    waiting_ticket_dict,       \* request id -> WaitingTicket [ticket, event]
    probe_timers,              \* intervals of the started, not yet fired probe timers
    service_test_interval,     \* BucketRateLimiterLock.service_test_interval
    service_test_delay,        \* the attribute test_if_service_resumed assigns
    started,                   \* RateLlmiterMonitor.started
    second_bucket_index,       \* RateLlmiterMonitor.second_bucket_index
    clock,                     \* int(time.time()) of the monitor's thread
    ticker,                    \* the timer thread running add_tickets: pc is "idle"
                               \* (next tick scheduled), "resume", "crashed" (ended
                               \* by KeyError), "log_failed" (ended by OSError),
                               \* "release_failed" (ended by AttributeError) or
                               \* "cancelled" (the pending Timer was cancelled)
    caller,                    \* the threads running the llmiter wrapper; raised is
                               \* the exception the wrapper call ended with
    stop_returned,             \* RateLlmiterMonitor.stop has run to its end
    lock,                      \* thread_safe_data.lock: its holder and where the holder entered
    session_file,              \* the lines stop() wrote to the session's .jsonl file
    bucket_list,               \* what load_session_file returned: buckets [m, h]
    demand                     \* a limiter under demand that exhausts every second:
                               \* <<>> before start(), else <<[second, ticket_count]>>

vars == <<request_per_minute, heap, current_minute_bucket, next_request_index,
          is_paused_by_rate_limit_exception, waiting_ticket_dict, probe_timers,
          service_test_interval, service_test_delay, started, second_bucket_index,
          clock, ticker, caller, stop_returned, lock, session_file, bucket_list, demand>>

\* ---- RateLlmiterTicket --------------------------------------------------
NewTicket(request_id, second_bucket_id) ==
    [request_id |-> request_id,
     initial_request_second_bucket_id |-> second_bucket_id,
     issued_ticket |-> None,
     issued_second_bucket_id |-> None,
     finished_second_bucket_id |-> None,
     rate_limit_event_list |-> <<>>]

HasIssuedTicket(t) == t.issued_ticket # None

\* record_issued_ticket that records the second of the request, not of the issuance
RecordIssuedTicketAtRequestSecond(t, issued_ticket, second_bucket_id) ==
    [t EXCEPT !.issued_ticket = issued_ticket,
              !.issued_second_bucket_id = t.initial_request_second_bucket_id]

\* RateLlmiterTicket.record_issued_ticket
RecordIssuedTicket(t, issued_ticket, second_bucket_id) ==
    [t EXCEPT !.issued_ticket = issued_ticket,
              !.issued_second_bucket_id = second_bucket_id]

\* the issuance fields are cleared before the event reads them
AddRateLimitedEvent(t, second_bucket_id) ==
    LET cleared == [t EXCEPT !.issued_ticket = None,
                             !.issued_second_bucket_id = None]
        event == [second_bucket_ticket_was_issued |-> cleared.issued_second_bucket_id,
                  second_bucket_ticket_was_limited |-> second_bucket_id,
                  reissued_second_bucket_id |-> None]
    IN  [cleared EXCEPT !.rate_limit_event_list = Append(@, event)]

\* a resolve that records the second of the retiring bucket, not of the issuing one
ResolveRateLimitedEventAtRetiringSecond(t, second_bucket_id) ==
    [t EXCEPT !.rate_limit_event_list[Len(t.rate_limit_event_list)].reissued_second_bucket_id
                  = second_bucket_id - 1]

ResolveRateLimitedEvent(t, second_bucket_id) ==
    [t EXCEPT !.rate_limit_event_list[Len(t.rate_limit_event_list)].reissued_second_bucket_id
                  = second_bucket_id]

FinishRequest(t, second_bucket_id) ==
    [t EXCEPT !.finished_second_bucket_id = second_bucket_id]

\* ---- SecondTicketBucket -------------------------------------------------
NewSecondBucket(second_bucket_id) ==
    [second_bucket_id |-> second_bucket_id,
     second_requested_ticket_count |-> 0,
     ticket_count |-> 0,
     issued_ticket_count |-> 0,
     issued_ticket_list |-> <<>>,
     overflow_request_list |-> <<>>,
     rate_limited_request_list |-> <<>>,
     finished_ticket_list |-> <<>>]

\* issue_ticket with <= for <
HasInventoryOffByOne(b) == b.issued_ticket_count <= b.ticket_count

\* the test of issue_ticket
HasInventory(b) == b.issued_ticket_count < b.ticket_count

\* issue_ticket on bucket b for the heap object o: [b, h, result]
IssueTicket(b, h, o) ==
    IF HasInventory(b)
    THEN [b |-> [b EXCEPT !.issued_ticket_count = @ + 1,
                          !.issued_ticket_list = Append(@, o)],
          h |-> [h EXCEPT ![o] = RecordIssuedTicket(@, b.issued_ticket_count + 1,
                                                    b.second_bucket_id)],
          result |-> TRUE]
    ELSE [b |-> b, h |-> h, result |-> FALSE]

\* SecondTicketBucket.get_ticket: the new ticket is heap object Len(h) + 1
BucketGetTicket(b, h, request_id) ==
    LET o == Len(h) + 1
        h1 == Append(h, NewTicket(request_id, b.second_bucket_id))
        b1 == [b EXCEPT !.second_requested_ticket_count = @ + 1]
        r == IssueTicket(b1, h1, o)
    IN  IF r.result
        THEN [b |-> r.b, h |-> r.h, ticket |-> o]
        ELSE [b |-> [r.b EXCEPT !.overflow_request_list = Append(@, o)],
              h |-> r.h, ticket |-> o]

\* finish_request that sets the ticket's field and leaves the finished list alone
BucketFinishRequestKeepsList(b, h, o) ==
    [b |-> b, h |-> [h EXCEPT ![o] = FinishRequest(@, b.second_bucket_id)]]

\* SecondTicketBucket.finish_request: [b, h]
BucketFinishRequest(b, h, o) ==
    [b |-> [b EXCEPT !.finished_ticket_list = Append(@, o)],
     h |-> [h EXCEPT ![o] = FinishRequest(@, b.second_bucket_id)]]

BucketAddRateLimitedRequest(b, h, o) ==
    [b |-> [b EXCEPT !.ticket_count = 0,
                     !.rate_limited_request_list = Append(@, o)],
     h |-> [h EXCEPT ![o] = AddRateLimitedEvent(@, b.second_bucket_id)]]

\* set_ticket_count as a plain ramp: no special case and no upper clamp
SetTicketCountUncapped(max_ticket_count, min_ticket_count, prior_bucket_issued_tickets, ticket_count_delta) ==
    Max2(prior_bucket_issued_tickets + ticket_count_delta, min_ticket_count)

\* set_ticket_count that ramps by twice the delta
SetTicketCountDoubleStep(max_ticket_count, min_ticket_count, prior_bucket_issued_tickets, ticket_count_delta) ==
    Max2(Min2(prior_bucket_issued_tickets + 2 * ticket_count_delta, max_ticket_count),
         min_ticket_count)

\* a set_ticket_count that forgets the delta
SetTicketCountWithoutDelta(max_ticket_count, min_ticket_count, prior_bucket_issued_tickets, ticket_count_delta) ==
    Max2(Min2(prior_bucket_issued_tickets, max_ticket_count), min_ticket_count)

\* SecondTicketBucket.set_ticket_count: the new ticket_count
SetTicketCount(max_ticket_count, min_ticket_count, prior_bucket_issued_tickets, ticket_count_delta) ==
    LET first == IF max_ticket_count = prior_bucket_issued_tickets
                 THEN max_ticket_count
                 ELSE prior_bucket_issued_tickets + ticket_count_delta
    IN  Max2(Min2(first, max_ticket_count), min_ticket_count)

\* one pass of a loop of transfer_tickets over list, from position i on;
\* acc is [b, h, released]
RECURSIVE TransferList(_, _, _, _)
TransferList(acc, list, i, is_rate_limited) ==
    IF i > Len(list) THEN acc
    ELSE LET o == Len(acc.h) + 1
             copied == Append(acc.h, acc.h[list[i]])
             r == IssueTicket(acc.b, copied, o)
             next ==
                 IF ~r.result
                 THEN [b |-> IF is_rate_limited
                             THEN [r.b EXCEPT !.rate_limited_request_list = Append(@, o)]
                             ELSE [r.b EXCEPT !.overflow_request_list = Append(@, o)],
                       h |-> r.h,
                       released |-> acc.released]
                 ELSE [b |-> r.b,
                       h |-> IF is_rate_limited
                             THEN [r.h EXCEPT ![o] = ResolveRateLimitedEvent(@, r.b.second_bucket_id)]
                             ELSE r.h,
                       released |-> Append(acc.released, o)]
         IN  TransferList(next, list, i + 1, is_rate_limited)

Reverse(list) == [i \in 1..Len(list) |-> list[Len(list) + 1 - i]]

\* transfer_tickets walking the overflow candidates from the newest to the oldest
TransferTicketsNewestFirst(b, h, unsatisfied_request_list, rate_limited_request_list) ==
    TransferList(
        TransferList([b |-> b, h |-> h, released |-> <<>>],
                     rate_limited_request_list, 1, TRUE),
        Reverse(unsatisfied_request_list), 1, FALSE)

\* transfer_tickets with its two loops in the other order
TransferTicketsOverflowFirst(b, h, unsatisfied_request_list, rate_limited_request_list) ==
    TransferList(
        TransferList([b |-> b, h |-> h, released |-> <<>>],
                     unsatisfied_request_list, 1, FALSE),
        rate_limited_request_list, 1, TRUE)

\* transfer_tickets without its second loop
TransferTicketsWithoutOverflow(b, h, unsatisfied_request_list, rate_limited_request_list) ==
    TransferList([b |-> b, h |-> h, released |-> <<>>],
                 rate_limited_request_list, 1, TRUE)

TransferTickets(b, h, unsatisfied_request_list, rate_limited_request_list) ==
    TransferList(
        TransferList([b |-> b, h |-> h, released |-> <<>>],
                     rate_limited_request_list, 1, TRUE),
        unsatisfied_request_list, 1, FALSE)

\* ---- MinuteTicketBucket -------------------------------------------------
\* the constructor followed by init_second_bucket_list
NewMinuteBucket(start_time_in_seconds, rpm, first_bucket_ticket_count) ==
    [start_time_in_seconds |-> start_time_in_seconds,
     max_tickets_per_second |-> MaxTicketsPerSecond(rpm),
     start_ramp_ticket_count |-> StartRampTicketCount(rpm),
     ramp_ticket_count_delta |-> RampTicketCountDelta(rpm),
     minute_requested_ticket_count |-> 0,
     minute_finished_request_count |-> 0,
     current_second_bucket_index |-> 0,
     second_bucket_list |->
         [i \in 1..SecondsPerMinute |->
             IF i = 1
             THEN [NewSecondBucket(start_time_in_seconds)
                       EXCEPT !.ticket_count = first_bucket_ticket_count]
             ELSE NewSecondBucket(start_time_in_seconds + i - 1)]]

GetCurrentSecondBucket(m) == m.second_bucket_list[m.current_second_bucket_index + 1]

GetLastBucketTicketUsedCount(m) == GetCurrentSecondBucket(m).issued_ticket_count

SetCurrentSecondBucket(m, b) ==
    [m EXCEPT !.second_bucket_list[m.current_second_bucket_index + 1] = b]

AdvanceSecondBucket(m, set_ticket_count) ==
    LET expiring_second_bucket == GetCurrentSecondBucket(m)
        index == Min2(m.current_second_bucket_index + 1, SecondsPerMinute - 1)
        m1 == [m EXCEPT !.current_second_bucket_index = index]
    IN  IF set_ticket_count
        THEN [m1 EXCEPT !.second_bucket_list[index + 1].ticket_count =
                 SetTicketCount(m.max_tickets_per_second, m.start_ramp_ticket_count,
                                expiring_second_bucket.issued_ticket_count,
                                m.ramp_ticket_count_delta)]
        ELSE m1

\* MinuteTicketBucket.release_tickets: [m, h, released]
MinuteReleaseTickets(m, h) ==
    LET last_second_bucket == PyIndex(m.second_bucket_list, m.current_second_bucket_index - 1)
        r == TransferTickets(GetCurrentSecondBucket(m), h,
                             last_second_bucket.overflow_request_list,
                             last_second_bucket.rate_limited_request_list)
    IN  [m |-> SetCurrentSecondBucket(m, r.b), h |-> r.h, released |-> r.released]

\* MinuteTicketBucket.transfer_tickets: last is <<>> (None) or <<minute bucket>>
MinuteTransferTickets(m, h, last) ==
    IF last = <<>>
    THEN [m |-> m, h |-> h, released |-> <<>>]
    ELSE LET last_used_second_bucket == GetCurrentSecondBucket(last[1])
             r == TransferTickets(m.second_bucket_list[1], h,
                                  last_used_second_bucket.overflow_request_list,
                                  last_used_second_bucket.rate_limited_request_list)
         IN  [m |-> [m EXCEPT !.second_bucket_list[1] = r.b],
              h |-> r.h, released |-> r.released]

\* ---- BucketRateLimiter: the blocks under the lock ------------------------
\* refresh_minute_bucket: [m, h, released]
\* refresh_minute_bucket that gives the first bucket inventory whether paused or not
FirstBucketTicketCountIgnoresPause(last, paused, rpm) ==
    Max2(IF last # <<>> THEN GetLastBucketTicketUsedCount(last[1])
                        ELSE StartRampTicketCount(rpm),
         StartRampTicketCount(rpm))

\* refresh_minute_bucket that starts every minute at the start of the ramp
FirstBucketTicketCountRestartsRamp(last, paused, rpm) ==
    IF paused THEN 0 ELSE StartRampTicketCount(rpm)

\* refresh_minute_bucket: first_bucket_ticket_count
FirstBucketTicketCount(last, paused, rpm) ==
    IF paused THEN 0
    ELSE Max2(IF last # <<>> THEN GetLastBucketTicketUsedCount(last[1])
                             ELSE StartRampTicketCount(rpm),
              StartRampTicketCount(rpm))

RefreshMinuteBucket(last, h, paused, rpm, time_in_seconds) ==
    LET first_bucket_ticket_count == FirstBucketTicketCount(last, paused, rpm)
        m == NewMinuteBucket(time_in_seconds, rpm, first_bucket_ticket_count)
    IN  MinuteTransferTickets(m, h, last)

\* release_tickets that replenishes whether paused or not
ReplenishOnAdvanceAlways(paused) == TRUE

\* the argument release_tickets passes to advance_second_bucket
ReplenishOnAdvance(paused) == ~paused

\* release_tickets: [m, h, released]
ReleaseTickets(m, h, paused) ==
    MinuteReleaseTickets(AdvanceSecondBucket(m, ReplenishOnAdvance(paused)), h)

\* ---- BucketRateLimiterLock.lock ------------------------------------------
\* the threads that take the lock besides the callers: the thread that calls
\* start(), the monitor's timer thread and the thread of a probe timer
MainThread == 0 - 2

TickerThread == 0 - 3

ProbeThread == 0 - 4

\* threading.Lock() as created: no thread holds it
Unlocked == [holder |-> None, entered |-> <<>>]

Init ==
    /\ request_per_minute \in RequestPerMinuteSet
    /\ heap = <<>>
    /\ current_minute_bucket = <<>>
    /\ next_request_index = 0
    /\ is_paused_by_rate_limit_exception = FALSE
    /\ waiting_ticket_dict = [k \in {} |-> 0]
    /\ probe_timers = <<>>
    /\ service_test_interval = MIN_TEST_IF_SERVICE_RESUMED_INTERVAL
    /\ service_test_delay = None
    /\ started = FALSE
    /\ second_bucket_index = 0
    /\ clock = 0
    /\ ticker = [pc |-> "idle", released |-> <<>>]
    /\ caller = [c \in Callers |->
                    [pc |-> "start", attempt |-> 0, ticket |-> None, in_call |-> "none",
                     raised |-> "none"]]
    /\ stop_returned = FALSE
    /\ lock = Unlocked
    /\ session_file = <<>>
    /\ bucket_list = <<>>
    /\ demand = <<>>

\* RateLlmiterMonitor.start
Start ==
    /\ ~started
    /\ LET r == RefreshMinuteBucket(current_minute_bucket, heap,
                                    is_paused_by_rate_limit_exception,
                                    request_per_minute, clock)
       IN  /\ current_minute_bucket' = <<r.m>>
           /\ heap' = r.h
    /\ second_bucket_index' = 1
    /\ started' = TRUE
    /\ UNCHANGED <<request_per_minute, next_request_index,
                   is_paused_by_rate_limit_exception, waiting_ticket_dict,
                   probe_timers, service_test_interval, service_test_delay, clock,
                   ticker, caller, stop_returned, lock, session_file, bucket_list, demand>>

\* ---- WaitingTicket and the waiter registry -------------------------------
\* WaitingTicket.__init__: threading.Event() starts cleared
NewWaitingTicket(o) == [ticket |-> o, event |-> FALSE]

DictSet(d, k, v) == [x \in DOMAIN d \cup {k} |-> IF x = k THEN v ELSE d[x]]

DictDel(d, k) == [x \in DOMAIN d \ {k} |-> d[x]]

\* resume_request without `waiting_ticket.ticket = ticket`
ResumeWaiterKeepsTicket(d, request_id, o) ==
    [d EXCEPT ![request_id].event = TRUE]

\* the locked block of resume_request followed by WaitingTicket.resume_request
ResumeWaiter(d, request_id, o) ==
    [d EXCEPT ![request_id] = [ticket |-> o, event |-> TRUE]]

\* ---- the llmiter wrapper and the limiter calls it makes ------------------
SetCaller(c, pc, ticket, in_call) ==
    caller' = [caller EXCEPT ![c].pc = pc, ![c].ticket = ticket, ![c].in_call = in_call]

\* get_ticket, the block under the lock
GetTicket(c) ==
    /\ caller[c].pc = "start"
    /\ caller[c].attempt < RetryBudget
    /\ next_request_index' = next_request_index + 1
    /\ IF current_minute_bucket = <<>>
       THEN \* None.get_ticket raises; the wrapper's return_ticket(None) raises again
            /\ caller' = [caller EXCEPT ![c].pc = "raised", ![c].ticket = None,
                                        ![c].in_call = "none",
                                        ![c].raised = "AttributeError"]
            /\ UNCHANGED <<heap, current_minute_bucket>>
       ELSE LET m == current_minute_bucket[1]
                r == BucketGetTicket(GetCurrentSecondBucket(m), heap, next_request_index)
            IN  /\ current_minute_bucket' =
                       <<[SetCurrentSecondBucket(m, r.b)
                             EXCEPT !.minute_requested_ticket_count = @ + 1]>>
                /\ heap' = r.h
                /\ SetCaller(c, IF HasIssuedTicket(r.h[r.ticket]) THEN "call" ELSE "wait",
                             r.ticket, "get_ticket")
    /\ UNCHANGED <<request_per_minute, is_paused_by_rate_limit_exception,
                   waiting_ticket_dict, probe_timers, service_test_interval,
                   service_test_delay, started, second_bucket_index, clock, ticker, stop_returned, lock, session_file, bucket_list, demand>>

\* wait, the first block under the lock
WaitRegister(c) ==
    /\ caller[c].pc = "wait"
    /\ waiting_ticket_dict' = DictSet(waiting_ticket_dict,
                                      heap[caller[c].ticket].request_id,
                                      NewWaitingTicket(caller[c].ticket))
    /\ caller' = [caller EXCEPT ![c].pc = "clear"]
    /\ UNCHANGED <<request_per_minute, heap, current_minute_bucket, next_request_index,
                   is_paused_by_rate_limit_exception, probe_timers,
                   service_test_interval, service_test_delay, started,
                   second_bucket_index, clock, ticker, stop_returned, lock, session_file, bucket_list, demand>>

\* WaitingTicket.wait: self.event.clear()
EventClear(c) ==
    /\ caller[c].pc = "clear"
    /\ waiting_ticket_dict' =
           [waiting_ticket_dict EXCEPT ![heap[caller[c].ticket].request_id].event = FALSE]
    /\ caller' = [caller EXCEPT ![c].pc = "block"]
    /\ UNCHANGED <<request_per_minute, heap, current_minute_bucket, next_request_index,
                   is_paused_by_rate_limit_exception, probe_timers,
                   service_test_interval, service_test_delay, started,
                   second_bucket_index, clock, ticker, stop_returned, lock, session_file, bucket_list, demand>>

\* WaitingTicket.wait: self.event.wait() returns once the event is set
EventWait(c) ==
    /\ caller[c].pc = "block"
    /\ waiting_ticket_dict[heap[caller[c].ticket].request_id].event
    /\ caller' = [caller EXCEPT ![c].pc = "unregister"]
    /\ UNCHANGED <<request_per_minute, heap, current_minute_bucket, next_request_index,
                   is_paused_by_rate_limit_exception, waiting_ticket_dict, probe_timers,
                   service_test_interval, service_test_delay, started,
                   second_bucket_index, clock, ticker, stop_returned, lock, session_file, bucket_list, demand>>

\* wait, the second block under the lock and the return of waiting_ticket.ticket;
\* after wait_for_ticket_after_rate_limit_exceeded the wrapper continues its loop
WaitUnregister(c) ==
    /\ caller[c].pc = "unregister"
    /\ LET request_id == heap[caller[c].ticket].request_id
           result == waiting_ticket_dict[request_id].ticket
       IN  /\ waiting_ticket_dict' = DictDel(waiting_ticket_dict, request_id)
           /\ caller' = [caller EXCEPT
                  ![c].ticket = result,
                  ![c].pc = IF caller[c].in_call = "get_ticket" THEN "call" ELSE "start",
                  ![c].attempt = IF caller[c].in_call = "get_ticket" THEN @ ELSE @ + 1]
    /\ UNCHANGED <<request_per_minute, heap, current_minute_bucket, next_request_index,
                   is_paused_by_rate_limit_exception, probe_timers,
                   service_test_interval, service_test_delay, started,
                   second_bucket_index, clock, ticker, stop_returned, lock, session_file, bucket_list, demand>>

\* unsafe_return_ticket on the current minute bucket: [m, h]
UnsafeReturnTicket(m, h, o) ==
    LET r == BucketFinishRequest(GetCurrentSecondBucket(m), h, o)
    IN  [m |-> [SetCurrentSecondBucket(m, r.b)
                   EXCEPT !.minute_finished_request_count = @ + 1],
         h |-> r.h]

\* the wrapped function returned (raised is FALSE) or raised an exception that
\* is not a throttle (raised is TRUE): return_ticket, then break or re-raise
ReturnTicket(c, raised) ==
    /\ caller[c].pc = "call"
    /\ LET r == UnsafeReturnTicket(current_minute_bucket[1], heap, caller[c].ticket)
       IN  /\ current_minute_bucket' = <<r.m>>
           /\ heap' = r.h
    /\ caller' = [caller EXCEPT ![c].pc = IF raised THEN "raised" ELSE "done",
                                ![c].raised = IF raised THEN "exception of the function"
                                              ELSE "none"]
    /\ UNCHANGED <<request_per_minute, next_request_index,
                   is_paused_by_rate_limit_exception, waiting_ticket_dict, probe_timers,
                   service_test_interval, service_test_delay, started,
                   second_bucket_index, clock, ticker, stop_returned, lock, session_file, bucket_list, demand>>

\* wait_for_ticket_after_rate_limit_exceeded that asks for a timer on every report
StartServiceResumedTimerAlways(paused) == TRUE

\* wait_for_ticket_after_rate_limit_exceeded: start_service_resumed_timer is set
\* only by the report that finds the limiter not paused
StartServiceResumedTimer(paused) == ~paused

\* the wrapped function raised 429/529:
\* wait_for_ticket_after_rate_limit_exceeded, the block under the lock
RateLimitExceeded(c) ==
    /\ caller[c].pc = "call"
    /\ LET r1 == UnsafeReturnTicket(current_minute_bucket[1], heap, caller[c].ticket)
           r2 == BucketAddRateLimitedRequest(GetCurrentSecondBucket(r1.m), r1.h,
                                             caller[c].ticket)
           start_service_resumed_timer ==
               StartServiceResumedTimer(is_paused_by_rate_limit_exception)
       IN  /\ current_minute_bucket' = <<SetCurrentSecondBucket(r1.m, r2.b)>>
           /\ heap' = r2.h
           /\ caller' = [caller EXCEPT
                  ![c].pc = IF start_service_resumed_timer THEN "start_timer" ELSE "wait",
                  ![c].in_call = "wait_for_ticket_after_rate_limit_exceeded"]
    /\ is_paused_by_rate_limit_exception' = TRUE
    /\ UNCHANGED <<request_per_minute, next_request_index, waiting_ticket_dict,
                   probe_timers, service_test_interval, service_test_delay, started,
                   second_bucket_index, clock, ticker, stop_returned, lock, session_file, bucket_list, demand>>

\* start_test_if_service_resumed_timer, called outside the lock: a Timer whose
\* interval is the service_test_interval of that moment
StartTimer(c) ==
    /\ caller[c].pc = "start_timer"
    /\ probe_timers' = Append(probe_timers, service_test_interval)
    /\ caller' = [caller EXCEPT ![c].pc = "wait"]
    /\ UNCHANGED <<request_per_minute, heap, current_minute_bucket, next_request_index,
                   is_paused_by_rate_limit_exception, waiting_ticket_dict,
                   service_test_interval, service_test_delay, started,
                   second_bucket_index, clock, ticker, stop_returned, lock, session_file, bucket_list, demand>>

\* every attempt was throttled: the loop ends and `return result` reads a local
\* that was never assigned
LoopExhausted(c) ==
    /\ caller[c].pc = "start"
    /\ caller[c].attempt >= RetryBudget
    /\ caller' = [caller EXCEPT ![c].pc = "raised", ![c].raised = "UnboundLocalError"]
    /\ UNCHANGED <<request_per_minute, heap, current_minute_bucket, next_request_index,
                   is_paused_by_rate_limit_exception, waiting_ticket_dict, probe_timers,
                   service_test_interval, service_test_delay, started,
                   second_bucket_index, clock, ticker, stop_returned, lock, session_file, bucket_list, demand>>

\* ---- RateLlmiterMonitor.add_tickets --------------------------------------
\* start() has created the monitor's timer (self.timer is not None); add_tickets
\* itself never reads self.started
TimerStarted == started \/ stop_returned

\* write_buckets_to_log opens the log file only when a minute bucket was retired,
\* that is on the tick of second 0
WritesLog(index) == index = 0

\* the end of add_tickets: write_buckets_to_log comes before the Timer for the
\* next tick and nothing catches what open() or write() raises
TickEnd(index, io_error) ==
    IF WritesLog(index) /\ io_error THEN "log_failed" ELSE "idle"

\* add_tickets that uses second_bucket_index as it finds it
SecondIndexWithoutModulo(index) == index

\* add_tickets: self.second_bucket_index % 60
SecondIndex(index) == index % SecondsPerMinute

\* the tick up to the end of the limiter's locked block; the resume_request
\* calls for the released tickets follow one by one
AddTickets ==
    /\ TimerStarted
    /\ ticker.pc = "idle"
    /\ clock < MaxClock
    /\ clock' = clock + 1
    /\ LET index == SecondIndex(second_bucket_index)
           r == IF index = 0
                THEN RefreshMinuteBucket(current_minute_bucket, heap,
                                         is_paused_by_rate_limit_exception,
                                         request_per_minute, clock + 1)
                ELSE ReleaseTickets(current_minute_bucket[1], heap,
                                    is_paused_by_rate_limit_exception)
       IN  IF index # 0 /\ current_minute_bucket = <<>>
           THEN \* release_tickets: None.get_current_second_bucket() raises
                /\ ticker' = [pc |-> "release_failed", released |-> <<>>]
                /\ second_bucket_index' = index
                /\ UNCHANGED <<current_minute_bucket, heap>>
           ELSE /\ current_minute_bucket' = <<r.m>>
                /\ heap' = r.h
                /\ IF r.released = <<>>
                   THEN /\ \E io_error \in IF WritesLog(index) THEN BOOLEAN ELSE {FALSE} :
                               ticker' = [pc |-> TickEnd(index, io_error), released |-> <<>>]
                        /\ second_bucket_index' = index + 1
                   ELSE /\ ticker' = [pc |-> "resume", released |-> r.released]
                        /\ second_bucket_index' = index
    /\ UNCHANGED <<request_per_minute, next_request_index,
                   is_paused_by_rate_limit_exception, waiting_ticket_dict, probe_timers,
                   service_test_interval, service_test_delay, started, caller, stop_returned, lock, session_file, bucket_list, demand>>

\* resume_request for the next released ticket; a request id that is not in
\* waiting_ticket_dict raises KeyError, which ends the timer thread
ResumeRequest ==
    /\ ticker.pc = "resume"
    /\ LET o == Head(ticker.released)
           request_id == heap[o].request_id
       IN  IF request_id \notin DOMAIN waiting_ticket_dict
           THEN /\ ticker' = [ticker EXCEPT !.pc = "crashed"]
                /\ UNCHANGED <<waiting_ticket_dict, second_bucket_index>>
           ELSE /\ waiting_ticket_dict' = ResumeWaiter(waiting_ticket_dict, request_id, o)
                /\ IF Tail(ticker.released) = <<>>
                   THEN /\ \E io_error \in IF WritesLog(second_bucket_index)
                                            THEN BOOLEAN ELSE {FALSE} :
                               ticker' = [pc |-> TickEnd(second_bucket_index, io_error),
                                          released |-> <<>>]
                        /\ second_bucket_index' = second_bucket_index + 1
                   ELSE /\ ticker' = [ticker EXCEPT !.released = Tail(@)]
                        /\ UNCHANGED second_bucket_index
    /\ UNCHANGED <<request_per_minute, heap, current_minute_bucket, next_request_index,
                   is_paused_by_rate_limit_exception, probe_timers,
                   service_test_interval, service_test_delay, started, clock, caller, stop_returned, lock, session_file, bucket_list, demand>>

\* ---- test_if_service_resumed, run by a probe timer -----------------------
\* a back-off without the cap
BackOffUncapped(interval) == (interval * 3) \div 2

\* INTERVAL_BACKOFF_RATE is 1.5
BackOff(interval) == Min2((interval * 3) \div 2, MAX_TEST_IF_SERVICE_RESUMED_INTERVAL)

\* the pending timers without the one that fires
RemoveAt(s, i) == [j \in 1..(Len(s) - 1) |-> IF j < i THEN s[j] ELSE s[j + 1]]

\* a timer fires and ratellmiter_is_llm_blocked() returns True: the interval
\* backs off and start_test_if_service_resumed_timer starts the next timer
ProbeBlockedUpTo(limit) ==
    /\ service_test_interval <= limit
    /\ \E i \in DOMAIN probe_timers :
           probe_timers' = Append(RemoveAt(probe_timers, i), BackOff(service_test_interval))
    /\ service_test_interval' = BackOff(service_test_interval)
    /\ UNCHANGED <<request_per_minute, heap, current_minute_bucket, next_request_index,
                   is_paused_by_rate_limit_exception, waiting_ticket_dict,
                   service_test_delay, started, second_bucket_index, clock, ticker,
                   caller, stop_returned, lock, session_file, bucket_list, demand>>

\* the upstream is found blocked only while the interval is within the bound
ProbeBlocked == ProbeBlockedUpTo(MaxProbedInterval)

\* a timer fires and ratellmiter_is_llm_blocked() raises: nothing catches the
\* exception, so the timer thread ends before either branch runs
ProbeRaises ==
    /\ \E i \in DOMAIN probe_timers : probe_timers' = RemoveAt(probe_timers, i)
    /\ UNCHANGED <<request_per_minute, heap, current_minute_bucket, next_request_index,
                   is_paused_by_rate_limit_exception, waiting_ticket_dict,
                   service_test_interval, service_test_delay, started,
                   second_bucket_index, clock, ticker, caller, stop_returned, lock, session_file, bucket_list, demand>>

\* a timer fires and ratellmiter_is_llm_blocked() returns False
ProbeUnblocked ==
    /\ \E i \in DOMAIN probe_timers : probe_timers' = RemoveAt(probe_timers, i)
    /\ is_paused_by_rate_limit_exception' = FALSE
    /\ service_test_delay' = MIN_TEST_IF_SERVICE_RESUMED_INTERVAL
    /\ UNCHANGED <<request_per_minute, heap, current_minute_bucket, next_request_index,
                   waiting_ticket_dict, service_test_interval, started,
                   second_bucket_index, clock, ticker, caller, stop_returned, lock, session_file, bucket_list, demand>>

Next ==
    \/ Start
    \/ AddTickets
    \/ ResumeRequest
    \/ ProbeBlocked
    \/ ProbeRaises
    \/ ProbeUnblocked
    \/ \E c \in Callers : GetTicket(c)
    \/ \E c \in Callers : WaitRegister(c)
    \/ \E c \in Callers : EventClear(c)
    \/ \E c \in Callers : EventWait(c)
    \/ \E c \in Callers : WaitUnregister(c)
    \/ \E c \in Callers : ReturnTicket(c, FALSE)
    \/ \E c \in Callers : RateLimitExceeded(c)
    \/ \E c \in Callers : StartTimer(c)
    \/ \E c \in Callers : LoopExhausted(c)

Spec == Init /\ [][Next]_vars

\* ---- callers that use the limiter's methods without the wrapper ------------
\* a client of get_ticket / wait_for_ticket_after_rate_limit_exceeded /
\* return_ticket makes its next attempt under the ticket that
\* wait_for_ticket_after_rate_limit_exceeded returned
UseRevivedTicket(c) ==
    /\ caller[c].pc = "start"
    /\ caller[c].in_call = "wait_for_ticket_after_rate_limit_exceeded"
    /\ caller[c].attempt < RetryBudget
    /\ caller' = [caller EXCEPT ![c].pc = "call"]
    /\ UNCHANGED <<request_per_minute, heap, current_minute_bucket, next_request_index,
                   is_paused_by_rate_limit_exception, waiting_ticket_dict, probe_timers,
                   service_test_interval, service_test_delay, started,
                   second_bucket_index, clock, ticker, stop_returned, lock, session_file, bucket_list, demand>>

\* ---- to_dict, to_json and from_dict ----------------------------------------
\* json.dumps and json.loads of a field that holds an int or None
JsonNull == [type |-> "null", value |-> 0]

JsonDumps(v) == IF v = None THEN JsonNull ELSE [type |-> "number", value |-> v]

JsonLoads(j) == IF j.type = "null" THEN None ELSE j.value

\* RateLimitedEvent.to_dict, as json.dumps writes it
EventToJson(e) ==
    [second_bucket_ticket_was_issued |-> JsonDumps(e.second_bucket_ticket_was_issued),
     second_bucket_ticket_was_limited |-> JsonDumps(e.second_bucket_ticket_was_limited),
     reissued_second_bucket_id |-> JsonDumps(e.reissued_second_bucket_id)]

\* RateLimitedEvent.from_dict on what json.loads reads
EventFromJson(j) ==
    [second_bucket_ticket_was_issued |-> JsonLoads(j.second_bucket_ticket_was_issued),
     second_bucket_ticket_was_limited |-> JsonLoads(j.second_bucket_ticket_was_limited),
     reissued_second_bucket_id |-> JsonLoads(j.reissued_second_bucket_id)]

\* RateLlmiterTicket.to_dict, as json.dumps writes it
TicketToJson(t) ==
    [request_id |-> JsonDumps(t.request_id),
     initial_request_second_bucket_id |-> JsonDumps(t.initial_request_second_bucket_id),
     issued_ticket |-> JsonDumps(t.issued_ticket),
     issued_second_bucket_id |-> JsonDumps(t.issued_second_bucket_id),
     finished_second_bucket_id |-> JsonDumps(t.finished_second_bucket_id),
     rate_limit_event_list |->
         [i \in DOMAIN t.rate_limit_event_list |-> EventToJson(t.rate_limit_event_list[i])]]

\* a from_dict that passes no rate_limit_event_list to the constructor
TicketFromJsonWithoutEvents(j) ==
    [request_id |-> JsonLoads(j.request_id),
     initial_request_second_bucket_id |-> JsonLoads(j.initial_request_second_bucket_id),
     issued_ticket |-> JsonLoads(j.issued_ticket),
     issued_second_bucket_id |-> JsonLoads(j.issued_second_bucket_id),
     finished_second_bucket_id |-> JsonLoads(j.finished_second_bucket_id),
     rate_limit_event_list |-> <<>>]

\* RateLlmiterTicket.from_dict on what json.loads reads
TicketFromJson(j) ==
    [request_id |-> JsonLoads(j.request_id),
     initial_request_second_bucket_id |-> JsonLoads(j.initial_request_second_bucket_id),
     issued_ticket |-> JsonLoads(j.issued_ticket),
     issued_second_bucket_id |-> JsonLoads(j.issued_second_bucket_id),
     finished_second_bucket_id |-> JsonLoads(j.finished_second_bucket_id),
     rate_limit_event_list |->
         [i \in DOMAIN j.rate_limit_event_list |-> EventFromJson(j.rate_limit_event_list[i])]]

\* [ticket.to_dict() for ticket in list]
TicketListToJson(list, h) == [i \in DOMAIN list |-> TicketToJson(h[list[i]])]

\* SecondTicketBucket.to_dict, as json.dumps writes it
SecondBucketToJson(b, h) ==
    [second_bucket_id |-> JsonDumps(b.second_bucket_id),
     second_requested_ticket_count |-> JsonDumps(b.second_requested_ticket_count),
     ticket_count |-> JsonDumps(b.ticket_count),
     issued_ticket_count |-> JsonDumps(b.issued_ticket_count),
     issued_ticket_list |-> TicketListToJson(b.issued_ticket_list, h),
     overflow_request_list |-> TicketListToJson(b.overflow_request_list, h),
     rate_limited_request_list |-> TicketListToJson(b.rate_limited_request_list, h),
     finished_ticket_list |-> TicketListToJson(b.finished_ticket_list, h)]

\* MinuteTicketBucket.to_json
MinuteToJson(m, h) ==
    [start_time_in_seconds |-> JsonDumps(m.start_time_in_seconds),
     max_tickets_per_second |-> JsonDumps(m.max_tickets_per_second),
     start_ramp_ticket_count |-> JsonDumps(m.start_ramp_ticket_count),
     ramp_ticket_count_delta |-> JsonDumps(m.ramp_ticket_count_delta),
     minute_requested_ticket_count |-> JsonDumps(m.minute_requested_ticket_count),
     minute_finished_request_count |-> JsonDumps(m.minute_finished_request_count),
     current_second_bucket_index |-> JsonDumps(m.current_second_bucket_index),
     second_bucket_list |->
         [i \in DOMAIN m.second_bucket_list |-> SecondBucketToJson(m.second_bucket_list[i], h)]]

\* the ticket dicts of one bucket dict, in the order SecondTicketBucket.from_dict
\* turns them into tickets
BucketTickets(bj) ==
    bj.issued_ticket_list \o bj.overflow_request_list
        \o bj.rate_limited_request_list \o bj.finished_ticket_list

\* the ticket dicts of the first n bucket dicts of a minute
RECURSIVE JsonTickets(_, _)
JsonTickets(mj, n) ==
    IF n = 0 THEN <<>>
    ELSE JsonTickets(mj, n - 1) \o BucketTickets(mj.second_bucket_list[n])

\* the objects from_dict creates for one list: one new ticket per entry
NewObjects(list, offset) == [i \in DOMAIN list |-> offset + i]

\* SecondTicketBucket.from_dict on what json.loads reads; offset is the number
\* of tickets created before
SecondBucketFromJson(bj, offset) ==
    [second_bucket_id |-> JsonLoads(bj.second_bucket_id),
     second_requested_ticket_count |-> JsonLoads(bj.second_requested_ticket_count),
     ticket_count |-> JsonLoads(bj.ticket_count),
     issued_ticket_count |-> JsonLoads(bj.issued_ticket_count),
     issued_ticket_list |-> NewObjects(bj.issued_ticket_list, offset),
     overflow_request_list |->
         NewObjects(bj.overflow_request_list, offset + Len(bj.issued_ticket_list)),
     rate_limited_request_list |->
         NewObjects(bj.rate_limited_request_list,
                    offset + Len(bj.issued_ticket_list) + Len(bj.overflow_request_list)),
     finished_ticket_list |->
         NewObjects(bj.finished_ticket_list,
                    offset + Len(bj.issued_ticket_list) + Len(bj.overflow_request_list)
                           + Len(bj.rate_limited_request_list))]

\* MinuteTicketBucket.from_dict on what json.loads reads: [m, h], the bucket
\* and the ticket objects it refers to
MinuteFromJson(mj) ==
    [m |-> [start_time_in_seconds |-> JsonLoads(mj.start_time_in_seconds),
            max_tickets_per_second |-> JsonLoads(mj.max_tickets_per_second),
            start_ramp_ticket_count |-> JsonLoads(mj.start_ramp_ticket_count),
            ramp_ticket_count_delta |-> JsonLoads(mj.ramp_ticket_count_delta),
            minute_requested_ticket_count |-> JsonLoads(mj.minute_requested_ticket_count),
            minute_finished_request_count |-> JsonLoads(mj.minute_finished_request_count),
            current_second_bucket_index |-> JsonLoads(mj.current_second_bucket_index),
            second_bucket_list |->
                [i \in DOMAIN mj.second_bucket_list |->
                    SecondBucketFromJson(mj.second_bucket_list[i],
                                         Len(JsonTickets(mj, i - 1)))]],
     h |-> LET all == JsonTickets(mj, Len(mj.second_bucket_list))
           IN  [k \in DOMAIN all |-> TicketFromJson(all[k])]]

\* ---- a program that stops the monitor ---------------------------------------
\* Timer.cancel() on self.timer: a pending timer never fires; the timer whose
\* add_tickets is running has fired already and cancel() has no effect on it
CancelTimer(pc) == IF pc = "idle" THEN "cancelled" ELSE pc

\* write_buckets_to_log: a bucket is written when it saw a request or when its
\* limiter is in active_rate_limiter_dict, which needs a request in a minute
\* that was written before
WrittenToLog(m, active) == m.minute_requested_ticket_count > 0 \/ active

\* RateLlmiterMonitor.stop, from a thread of the program, with the log written;
\* when write_buckets_to_log raises, stop ends before cancel() and changes nothing
Stop ==
    /\ TimerStarted
    /\ ~stop_returned
    /\ LET m == current_minute_bucket[1]
       IN  \E active \in IF next_request_index > m.minute_requested_ticket_count
                          THEN BOOLEAN ELSE {FALSE} :
               session_file' = IF WrittenToLog(m, active)
                               THEN Append(session_file, MinuteToJson(m, heap))
                               ELSE session_file
    /\ ticker' = [ticker EXCEPT !.pc = CancelTimer(@)]
    /\ started' = FALSE
    /\ stop_returned' = TRUE
    /\ UNCHANGED <<request_per_minute, heap, current_minute_bucket, next_request_index,
                   is_paused_by_rate_limit_exception, waiting_ticket_dict, probe_timers,
                   service_test_interval, service_test_delay, second_bucket_index,
                   clock, caller, lock, bucket_list, demand>>

\* the program calls start() once, before it calls stop()
StartOnce == ~stop_returned /\ Start

StopNext ==
    \/ StartOnce
    \/ Stop
    \/ AddTickets
    \/ ResumeRequest
    \/ ProbeBlocked
    \/ ProbeRaises
    \/ ProbeUnblocked
    \/ \E c \in Callers : GetTicket(c)
    \/ \E c \in Callers : WaitRegister(c)
    \/ \E c \in Callers : EventClear(c)
    \/ \E c \in Callers : EventWait(c)
    \/ \E c \in Callers : WaitUnregister(c)
    \/ \E c \in Callers : ReturnTicket(c, FALSE)
    \/ \E c \in Callers : RateLimitExceeded(c)
    \/ \E c \in Callers : StartTimer(c)
    \/ \E c \in Callers : LoopExhausted(c)

StopSpec == Init /\ [][StopNext]_vars

\* ---- the lock taken and released step by step ----------------------------
\* where a thread is in its code
Position(th) ==
    IF th \in Callers THEN <<caller[th]>>
    ELSE IF th = TickerThread THEN <<ticker, clock>>
    ELSE IF th = ProbeThread THEN <<is_paused_by_rate_limit_exception>>
    ELSE <<started>>

\* the thread's next statement is a `with self.thread_safe_data.lock:`
WantsLock(th) ==
    IF th \in Callers
    THEN \/ caller[th].pc = "start" /\ caller[th].attempt < RetryBudget
         \/ caller[th].pc \in {"wait", "unregister", "call"}
    ELSE IF th = TickerThread
    THEN \/ TimerStarted /\ ticker.pc = "idle" /\ clock < MaxClock
         \/ ticker.pc = "resume"
    ELSE IF th = ProbeThread THEN probe_timers # <<>>
    ELSE ~started

\* Lock.__enter__: the lock is not reentrant, the thread waits until it is free
Acquire(th) ==
    /\ lock.holder = None
    /\ WantsLock(th)
    /\ lock' = [holder |-> th, entered |-> Position(th)]
    /\ UNCHANGED <<request_per_minute, heap, current_minute_bucket, next_request_index,
                   is_paused_by_rate_limit_exception, waiting_ticket_dict, probe_timers,
                   service_test_interval, service_test_delay, started,
                   second_bucket_index, clock, ticker, caller, stop_returned,
                   session_file, bucket_list, demand>>

\* the thread is inside a with block it has not yet run
Holding(th) == lock.holder = th /\ lock.entered = Position(th)

\* the thread is outside every with block
NotHolding(th) == lock.holder # th

\* a with block that, in release_tickets and refresh_minute_bucket, also spans
\* the loop over the released tickets
BlockEndedAfterResumeLoop(th) ==
    /\ lock.entered # Position(th)
    /\ th = TickerThread => ticker.pc \notin {"resume", "signal"}

\* the thread has run the statements of its with block, or raised inside it
BlockEnded(th) == lock.entered # Position(th)

\* Lock.__exit__
Release(th) ==
    /\ lock.holder = th
    /\ BlockEnded(th)
    /\ lock' = Unlocked
    /\ UNCHANGED <<request_per_minute, heap, current_minute_bucket, next_request_index,
                   is_paused_by_rate_limit_exception, waiting_ticket_dict, probe_timers,
                   service_test_interval, service_test_delay, started,
                   second_bucket_index, clock, ticker, caller, stop_returned,
                   session_file, bucket_list, demand>>

\* resume_request, the block under the lock: a request id that is not in
\* waiting_ticket_dict raises KeyError, which ends the timer thread
ResumeRequestLocked ==
    /\ ticker.pc = "resume"
    /\ LET o == Head(ticker.released)
           request_id == heap[o].request_id
       IN  IF request_id \notin DOMAIN waiting_ticket_dict
           THEN /\ ticker' = [ticker EXCEPT !.pc = "crashed"]
                /\ UNCHANGED waiting_ticket_dict
           ELSE /\ waiting_ticket_dict' = [waiting_ticket_dict EXCEPT ![request_id].ticket = o]
                /\ ticker' = [ticker EXCEPT !.pc = "signal"]
    /\ UNCHANGED <<request_per_minute, heap, current_minute_bucket, next_request_index,
                   is_paused_by_rate_limit_exception, probe_timers,
                   service_test_interval, service_test_delay, started,
                   second_bucket_index, clock, caller, stop_returned, lock, session_file, bucket_list, demand>>

\* resume_request, after the lock: waiting_ticket.resume_request() sets the
\* event of the WaitingTicket the locked block looked up; then the loop goes on
\* or add_tickets ends
Signal ==
    /\ ticker.pc = "signal"
    /\ LET request_id == heap[Head(ticker.released)].request_id
       IN  waiting_ticket_dict' =
               IF request_id \in DOMAIN waiting_ticket_dict
               THEN [waiting_ticket_dict EXCEPT ![request_id].event = TRUE]
               ELSE waiting_ticket_dict
    /\ IF Tail(ticker.released) = <<>>
       THEN /\ \E io_error \in IF WritesLog(second_bucket_index) THEN BOOLEAN ELSE {FALSE} :
                   ticker' = [pc |-> TickEnd(second_bucket_index, io_error),
                              released |-> <<>>]
            /\ second_bucket_index' = second_bucket_index + 1
       ELSE /\ ticker' = [pc |-> "resume", released |-> Tail(ticker.released)]
            /\ UNCHANGED second_bucket_index
    /\ UNCHANGED <<request_per_minute, heap, current_minute_bucket, next_request_index,
                   is_paused_by_rate_limit_exception, probe_timers,
                   service_test_interval, service_test_delay, started, clock, caller,
                   stop_returned, lock, session_file, bucket_list, demand>>

LockThreads == Callers \cup {MainThread, TickerThread, ProbeThread}

\* the statements inside the with blocks, run by the holder of the lock
LockedStep ==
    \/ Holding(MainThread) /\ Start
    \/ Holding(TickerThread) /\ AddTickets
    \/ Holding(TickerThread) /\ ResumeRequestLocked
    \/ Holding(ProbeThread) /\ ProbeUnblocked
    \/ \E c \in Callers : Holding(c) /\ GetTicket(c)
    \/ \E c \in Callers : Holding(c) /\ WaitRegister(c)
    \/ \E c \in Callers : Holding(c) /\ WaitUnregister(c)
    \/ \E c \in Callers : Holding(c) /\ ReturnTicket(c, FALSE)
    \/ \E c \in Callers : Holding(c) /\ RateLimitExceeded(c)

\* the statements outside the with blocks
UnlockedStep ==
    \/ NotHolding(TickerThread) /\ Signal
    \/ NotHolding(ProbeThread) /\ ProbeBlocked
    \/ NotHolding(ProbeThread) /\ ProbeRaises
    \/ \E c \in Callers : NotHolding(c) /\ EventClear(c)
    \/ \E c \in Callers : NotHolding(c) /\ EventWait(c)
    \/ \E c \in Callers : NotHolding(c) /\ StartTimer(c)
    \/ \E c \in Callers : NotHolding(c) /\ LoopExhausted(c)

LockNext ==
    \/ \E th \in LockThreads : Acquire(th)
    \/ \E th \in LockThreads : Release(th)
    \/ LockedStep
    \/ UnlockedStep

LockSpec == Init /\ [][LockNext]_vars

\* ---- a program that stops the monitor and reads the session file back -----
\* the program calls stop() after its wrapped calls have returned or raised
StopAtExit ==
    /\ \A c \in Callers : caller[c].pc \in {"done", "raised"}
    /\ Stop

\* load_session_file: MinuteTicketBucket.from_dict(json.loads(line)) for every
\* line of the file; without a file open() raises
LoadSessionFile ==
    /\ session_file # <<>>
    /\ bucket_list = <<>>
    /\ bucket_list' = [i \in DOMAIN session_file |-> MinuteFromJson(session_file[i])]
    /\ UNCHANGED <<request_per_minute, heap, current_minute_bucket, next_request_index,
                   is_paused_by_rate_limit_exception, waiting_ticket_dict, probe_timers,
                   service_test_interval, service_test_delay, started,
                   second_bucket_index, clock, ticker, caller, stop_returned, lock,
                   session_file, demand>>

LogNext ==
    \/ StartOnce
    \/ StopAtExit
    \/ LoadSessionFile
    \/ AddTickets
    \/ ResumeRequest
    \/ ProbeBlocked
    \/ ProbeRaises
    \/ ProbeUnblocked
    \/ \E c \in Callers : GetTicket(c)
    \/ \E c \in Callers : WaitRegister(c)
    \/ \E c \in Callers : EventClear(c)
    \/ \E c \in Callers : EventWait(c)
    \/ \E c \in Callers : WaitUnregister(c)
    \/ \E c \in Callers : ReturnTicket(c, FALSE)
    \/ \E c \in Callers : RateLimitExceeded(c)
    \/ \E c \in Callers : StartTimer(c)
    \/ \E c \in Callers : LoopExhausted(c)

LogSpec == Init /\ [][LogNext]_vars

\* ---- a limiter whose callers take every ticket of every second --------------
\* range(60) of init_second_bucket_list and % 60 of add_tickets
SECONDS_IN_MINUTE == 60

\* the seconds the limiter is followed for: two minutes and some seconds
MaxDemandSecond == 125

DemandRequestPerMinuteSet == {30, 60, 120, 300, 600, 601, 659, 899, 1499}

\* advance_second_bucket: the ticket_count of the next second of the minute
NextTicketCount(rpm, issued_ticket_count) ==
    SetTicketCount(MaxTicketsPerSecond(rpm), StartRampTicketCount(rpm),
                   issued_ticket_count, RampTicketCountDelta(rpm))

\* of a retiring minute, what refresh_minute_bucket reads: the current second
\* bucket and its issued_ticket_count
RetiringMinute(issued_ticket_count) ==
    [current_second_bucket_index |-> 0,
     second_bucket_list |-> <<[issued_ticket_count |-> issued_ticket_count]>>]

DemandInit ==
    /\ request_per_minute \in DemandRequestPerMinuteSet
    /\ heap = <<>>
    /\ current_minute_bucket = <<>>
    /\ next_request_index = 0
    /\ is_paused_by_rate_limit_exception = FALSE
    /\ waiting_ticket_dict = [k \in {} |-> 0]
    /\ probe_timers = <<>>
    /\ service_test_interval = MIN_TEST_IF_SERVICE_RESUMED_INTERVAL
    /\ service_test_delay = None
    /\ started = FALSE
    /\ second_bucket_index = 0
    /\ clock = 0
    /\ ticker = [pc |-> "idle", released |-> <<>>]
    /\ caller = [c \in Callers |->
                    [pc |-> "start", attempt |-> 0, ticket |-> None, in_call |-> "none",
                     raised |-> "none"]]
    /\ stop_returned = FALSE
    /\ lock = Unlocked
    /\ session_file = <<>>
    /\ bucket_list = <<>>
    /\ demand = <<>>

\* start(): refresh_minute_bucket without a retiring minute, unpaused
DemandStart ==
    /\ demand = <<>>
    /\ LET ticket_count == FirstBucketTicketCount(<<>>, FALSE, request_per_minute)
       IN  demand' = <<[second |-> 0,
                        ticket_count |-> ticket_count,
                        minute_issued_ticket_count |-> ticket_count]>>
    /\ UNCHANGED <<request_per_minute, heap, current_minute_bucket, next_request_index,
                   is_paused_by_rate_limit_exception, waiting_ticket_dict, probe_timers,
                   service_test_interval, service_test_delay, started,
                   second_bucket_index, clock, ticker, caller, stop_returned, lock,
                   session_file, bucket_list>>

\* add_tickets after a second in which the callers took every ticket
\* (issued_ticket_count = ticket_count) and none was throttled: release_tickets
\* inside the minute, refresh_minute_bucket on every 60th tick;
\* minute_issued_ticket_count is the sum of issued_ticket_count over the second
\* buckets of the minute once the callers have taken the tickets of this second
DemandTick ==
    /\ demand # <<>>
    /\ demand[1].second < MaxDemandSecond
    /\ LET second == demand[1].second + 1
           issued_ticket_count == demand[1].ticket_count
           ticket_count ==
               IF second % SECONDS_IN_MINUTE = 0
               THEN FirstBucketTicketCount(<<RetiringMinute(issued_ticket_count)>>,
                                           FALSE, request_per_minute)
               ELSE NextTicketCount(request_per_minute, issued_ticket_count)
       IN  demand' =
               <<[second |-> second,
                  ticket_count |-> ticket_count,
                  minute_issued_ticket_count |->
                      IF second % SECONDS_IN_MINUTE = 0
                      THEN ticket_count
                      ELSE demand[1].minute_issued_ticket_count + ticket_count]>>
    /\ UNCHANGED <<request_per_minute, heap, current_minute_bucket, next_request_index,
                   is_paused_by_rate_limit_exception, waiting_ticket_dict, probe_timers,
                   service_test_interval, service_test_delay, started,
                   second_bucket_index, clock, ticker, caller, stop_returned, lock,
                   session_file, bucket_list>>

DemandNext ==
    \/ DemandStart
    \/ DemandTick

DemandSpec == DemandInit /\ [][DemandNext]_vars

\* ---- an upstream that stays blocked for several probes ----------------------
\* the upstream is found blocked while the interval is at most this many
\* milliseconds: long enough for the interval to reach its cap and stay there
MaxEpisodeInterval == 65000

ProbeBlockedInEpisode == ProbeBlockedUpTo(MaxEpisodeInterval)

ProbeNext ==
    \/ Start
    \/ AddTickets
    \/ ResumeRequest
    \/ ProbeBlockedInEpisode
    \/ ProbeRaises
    \/ ProbeUnblocked
    \/ \E c \in Callers : GetTicket(c)
    \/ \E c \in Callers : WaitRegister(c)
    \/ \E c \in Callers : EventClear(c)
    \/ \E c \in Callers : EventWait(c)
    \/ \E c \in Callers : WaitUnregister(c)
    \/ \E c \in Callers : ReturnTicket(c, FALSE)
    \/ \E c \in Callers : RateLimitExceeded(c)
    \/ \E c \in Callers : StartTimer(c)
    \/ \E c \in Callers : LoopExhausted(c)

ProbeSpec == Init /\ [][ProbeNext]_vars

\* ---- a limiter constructed after the monitor was started -----------------------
\* start() with an empty rate_limiter_list, some ticks of the timer, then
\* BucketRateLimiter(request_per_minute), whose __init__ ends with
\* add_rate_limiter; clock counts from the construction of the limiter
LateInit ==
    /\ request_per_minute \in RequestPerMinuteSet
    /\ heap = <<>>
    /\ current_minute_bucket = <<>>
    /\ next_request_index = 0
    /\ is_paused_by_rate_limit_exception = FALSE
    /\ waiting_ticket_dict = [k \in {} |-> 0]
    /\ probe_timers = <<>>
    /\ service_test_interval = MIN_TEST_IF_SERVICE_RESUMED_INTERVAL
    /\ service_test_delay = None
    /\ started = TRUE
    /\ second_bucket_index \in 1..SecondsPerMinute
    /\ clock = 0
    /\ ticker = [pc |-> "idle", released |-> <<>>]
    /\ caller = [c \in Callers |->
                    [pc |-> "start", attempt |-> 0, ticket |-> None, in_call |-> "none",
                     raised |-> "none"]]
    /\ stop_returned = FALSE
    /\ lock = Unlocked
    /\ session_file = <<>>
    /\ bucket_list = <<>>
    /\ demand = <<>>

LateNext ==
    \/ AddTickets
    \/ ResumeRequest
    \/ ProbeBlocked
    \/ ProbeRaises
    \/ ProbeUnblocked
    \/ \E c \in Callers : GetTicket(c)
    \/ \E c \in Callers : WaitRegister(c)
    \/ \E c \in Callers : EventClear(c)
    \/ \E c \in Callers : EventWait(c)
    \/ \E c \in Callers : WaitUnregister(c)
    \/ \E c \in Callers : ReturnTicket(c, FALSE)
    \/ \E c \in Callers : RateLimitExceeded(c)
    \/ \E c \in Callers : StartTimer(c)
    \/ \E c \in Callers : LoopExhausted(c)

LateSpec == LateInit /\ [][LateNext]_vars

\* ---- wrapped functions that also raise exceptions that are no throttle ---------
WrapperNext ==
    \/ Start
    \/ AddTickets
    \/ ResumeRequest
    \/ ProbeBlocked
    \/ ProbeRaises
    \/ ProbeUnblocked
    \/ \E c \in Callers : GetTicket(c)
    \/ \E c \in Callers : WaitRegister(c)
    \/ \E c \in Callers : EventClear(c)
    \/ \E c \in Callers : EventWait(c)
    \/ \E c \in Callers : WaitUnregister(c)
    \/ \E c \in Callers : \E raised \in BOOLEAN : ReturnTicket(c, raised)
    \/ \E c \in Callers : RateLimitExceeded(c)
    \/ \E c \in Callers : StartTimer(c)
    \/ \E c \in Callers : LoopExhausted(c)

WrapperSpec == Init /\ [][WrapperNext]_vars

\* ---- a limiter whose ramp starts above its delta ---------------------------
\* request_per_minute 600 gives 10 tickets per second, a ramp that starts at
\* round(2.5) and a delta of round(1.0)
RampRequestPerMinuteSet == {60, 600}

RampInit ==
    /\ request_per_minute \in RampRequestPerMinuteSet
    /\ heap = <<>>
    /\ current_minute_bucket = <<>>
    /\ next_request_index = 0
    /\ is_paused_by_rate_limit_exception = FALSE
    /\ waiting_ticket_dict = [k \in {} |-> 0]
    /\ probe_timers = <<>>
    /\ service_test_interval = MIN_TEST_IF_SERVICE_RESUMED_INTERVAL
    /\ service_test_delay = None
    /\ started = FALSE
    /\ second_bucket_index = 0
    /\ clock = 0
    /\ ticker = [pc |-> "idle", released |-> <<>>]
    /\ caller = [c \in Callers |->
                    [pc |-> "start", attempt |-> 0, ticket |-> None, in_call |-> "none",
                     raised |-> "none"]]
    /\ stop_returned = FALSE
    /\ lock = Unlocked
    /\ session_file = <<>>
    /\ bucket_list = <<>>
    /\ demand = <<>>

RampSpec == RampInit /\ [][Next]_vars

ApiNext ==
    \/ Next
    \/ \E c \in Callers : UseRevivedTicket(c)

ApiSpec == Init /\ [][ApiNext]_vars

\* ---- vocabulary of the properties ----------------------------------------
\* the SecondTicketBuckets of the current minute bucket
SecondBuckets ==
    IF current_minute_bucket = <<>> THEN {}
    ELSE {current_minute_bucket[1].second_bucket_list[i] : i \in 1..SecondsPerMinute}

Objects == DOMAIN heap

\* the request id the caller's current ticket carries
RequestIdOf(c) == heap[caller[c].ticket].request_id

\* the caller holds a ticket that get_ticket returned
ReturnedFromGetTicket(c) ==
    /\ caller[c].in_call = "get_ticket"
    /\ caller[c].pc \in {"call", "done"}

\* the caller holds a ticket that wait_for_ticket_after_rate_limit_exceeded returned
ReturnedFromRateLimitWait(c) ==
    /\ caller[c].in_call = "wait_for_ticket_after_rate_limit_exceeded"
    /\ caller[c].pc \in {"start", "raised"}

\* C1: every SecondBucket of the limiter has ticket_count <= max_tickets_per_second,
\* after any sequence of get_ticket, return_ticket, rate-limit reports, ticks and
\* minute rollovers.
C1_TicketCountAtMostMax ==
    \A b \in SecondBuckets : b.ticket_count <= MaxTicketsPerSecond(request_per_minute)

\* a tick has set a bucket to max because the bucket before it issued max tickets
C1_Witness ==
    /\ current_minute_bucket # <<>>
    /\ LET m == current_minute_bucket[1]
       IN  /\ m.current_second_bucket_index = 1
           /\ m.second_bucket_list[1].issued_ticket_count = m.max_tickets_per_second
           /\ m.second_bucket_list[2].ticket_count = m.max_tickets_per_second

\* what the bucket at position i had issued before a step: nothing if the step
\* made a new minute bucket
IssuedBefore(i) ==
    IF /\ current_minute_bucket # <<>>
       /\ current_minute_bucket'[1].start_time_in_seconds
              = current_minute_bucket[1].start_time_in_seconds
    THEN current_minute_bucket[1].second_bucket_list[i].issued_ticket_count
    ELSE 0

C2_CountIsListLength ==
    \A b \in SecondBuckets :
        /\ b.issued_ticket_count = Len(b.issued_ticket_list)
        /\ b.issued_ticket_count > b.ticket_count
               => b.ticket_count = 0 /\ b.rate_limited_request_list # <<>>

C2_IssuanceWithinInventory ==
    current_minute_bucket' # <<>> =>
        \A i \in 1..SecondsPerMinute :
            LET b == current_minute_bucket'[1].second_bucket_list[i]
            IN  b.issued_ticket_count > IssuedBefore(i)
                    => b.issued_ticket_count <= b.ticket_count

\* C2: in every SecondBucket issued_ticket_count is the length of issued_ticket_list;
\* every step that issues in a bucket leaves its issued_ticket_count within the
\* ticket_count of that moment; issued_ticket_count exceeds ticket_count only in a
\* bucket that add_rate_limited_request has set to 0.
C2_IssuedCountAndInventory ==
    [](C2_CountIsListLength) /\ [][C2_IssuanceWithinInventory]_vars

\* a bucket that issued and was then zeroed by a rate-limit report
C2_Witness ==
    \E b \in SecondBuckets :
        /\ b.issued_ticket_count > b.ticket_count
        /\ b.rate_limited_request_list # <<>>

\* C3: a ticket that get_ticket or wait_for_ticket_after_rate_limit_exceeded has
\* returned to its caller has issued_ticket and issued_second_bucket_id set.
C3_ReturnedTicketIsIssued ==
    \A c \in Callers :
        ReturnedFromGetTicket(c) \/ ReturnedFromRateLimitWait(c)
            => /\ heap[caller[c].ticket].issued_ticket # None
               /\ heap[caller[c].ticket].issued_second_bucket_id # None

\* one caller is back from wait_for_ticket_after_rate_limit_exceeded and another is
\* back from get_ticket with a ticket that was parked and issued by a later tick
C3_Witness ==
    \E c, d \in Callers :
        /\ ReturnedFromRateLimitWait(c)
        /\ ReturnedFromGetTicket(d)
        /\ heap[caller[d].ticket].initial_request_second_bucket_id
               < heap[caller[d].ticket].issued_second_bucket_id

\* the WaitingTicket the caller registered for its ticket
WaiterOf(c) == waiting_ticket_dict[RequestIdOf(c)]

\* the caller is inside wait(), between its two locked blocks
Registered(c) == caller[c].pc \in {"clear", "block", "unregister"}

\* resume_request has handed the issued ticket to the caller's waiter
Signalled(c) == Registered(c) /\ HasIssuedTicket(heap[WaiterOf(c).ticket])

\* the caller blocks in Event.wait() on a cleared event that nothing will set:
\* the timer thread has ended, or the one resume_request for its ticket is past
Stuck(c) ==
    /\ caller[c].pc = "block"
    /\ ~WaiterOf(c).event
    /\ ticker.pc = "crashed" \/ Signalled(c)

\* a stuck caller stays stuck whatever happens next
StuckIsPermanent == [][\A c \in Callers : Stuck(c) => Stuck(c)']_vars

NoRateLimitSoFar == \A o \in Objects : heap[o].rate_limit_event_list = <<>>

\* C4: with the monitor started and the limiter never paused every get_ticket
\* eventually returns; stated by what it excludes: no caller of get_ticket reaches
\* a state in which it blocks for good.
C4_GetTicketNeverBlocksForGood ==
    started /\ NoRateLimitSoFar => \A c \in Callers : ~Stuck(c)

\* C5: a waiter that resume_request signalled before its caller blocks on it lets
\* the caller through: a signalled caller that reaches Event.wait() finds the event set.
C5_EarlySignalIsSeen ==
    \A c \in Callers : caller[c].pc = "block" /\ Signalled(c) => WaiterOf(c).event

\* the un-issued tickets queued in the current second bucket
QueuedInCurrentBucket ==
    IF current_minute_bucket = <<>> THEN {}
    ELSE LET b == GetCurrentSecondBucket(current_minute_bucket[1])
         IN  {b.overflow_request_list[i] : i \in 1..Len(b.overflow_request_list)}
             \cup {b.rate_limited_request_list[i] : i \in 1..Len(b.rate_limited_request_list)}

\* C6: whenever the limiter lock is free every un-issued ticket queued in the current
\* bucket has an entry in waiting_ticket_dict, and resume_request always finds the
\* waiter of a promoted ticket.
C6_QueuedTicketHasWaiter ==
    /\ \A o \in QueuedInCurrentBucket : heap[o].request_id \in DOMAIN waiting_ticket_dict
    /\ ticker.pc # "crashed"

\* request ids of tickets that no rate-limit report ever touched
NeverRateLimited(request_id) ==
    \A o \in Objects :
        heap[o].request_id = request_id => heap[o].rate_limit_event_list = <<>>

IssuedObjects == {o \in Objects : HasIssuedTicket(heap[o])}

\* a is issued earlier than b: in an earlier second, or in the same with a smaller number
IssuedBeforeTicket(a, b) ==
    \/ heap[a].issued_second_bucket_id < heap[b].issued_second_bucket_id
    \/ /\ heap[a].issued_second_bucket_id = heap[b].issued_second_bucket_id
       /\ heap[a].issued_ticket < heap[b].issued_ticket

\* C7: among tickets that are never rate-limited issuance is FIFO by request id:
\* when a ticket is issued every never-rate-limited ticket with a smaller request id
\* is issued too, in an earlier second or in the same second with a smaller number.
C7_FifoByRequestId ==
    \A b \in IssuedObjects :
        \A earlier \in Objects :
            /\ heap[earlier].request_id < heap[b].request_id
            /\ NeverRateLimited(heap[earlier].request_id)
            /\ NeverRateLimited(heap[b].request_id)
            => \E a \in IssuedObjects :
                   /\ heap[a].request_id = heap[earlier].request_id
                   /\ IssuedBeforeTicket(a, b)

\* two tickets parked in one second whose carry-over took two ticks, the second of
\* them a minute rollover, and which were issued in arrival order
C7_Witness ==
    \E a, b \in IssuedObjects :
        /\ heap[a].request_id < heap[b].request_id
        /\ NeverRateLimited(heap[a].request_id) /\ NeverRateLimited(heap[b].request_id)
        /\ heap[a].initial_request_second_bucket_id < heap[a].issued_second_bucket_id
        /\ heap[b].initial_request_second_bucket_id < heap[a].issued_second_bucket_id
        /\ heap[a].issued_second_bucket_id < heap[b].issued_second_bucket_id
        /\ heap[b].issued_second_bucket_id >= SecondsPerMinute

\* the tickets of list that were carried into the bucket with this id
CarriedRateLimited(b) ==
    {o \in {b.rate_limited_request_list[i] : i \in 1..Len(b.rate_limited_request_list)} :
        Last(heap[o].rate_limit_event_list).second_bucket_ticket_was_limited
            < b.second_bucket_id}

CarriedOverflowIssued(b) ==
    {o \in {b.issued_ticket_list[i] : i \in 1..Len(b.issued_ticket_list)} :
        /\ heap[o].initial_request_second_bucket_id < b.second_bucket_id
        /\ heap[o].rate_limit_event_list = <<>>}

\* C8: a bucket that left a carried-over rate-limited ticket un-issued has issued no
\* carried-over overflow ticket.
C8_RateLimitedBeforeOverflow ==
    \A b \in SecondBuckets : CarriedRateLimited(b) # {} => CarriedOverflowIssued(b) = {}

\* a transfer with both kinds of candidates and inventory for one of them: the
\* rate-limited ticket was issued and the overflow ticket was carried on
C8_Witness ==
    \E b \in SecondBuckets :
        /\ \E i \in 1..Len(b.issued_ticket_list) :
               LET t == heap[b.issued_ticket_list[i]]
               IN  /\ t.rate_limit_event_list # <<>>
                   /\ Last(t.rate_limit_event_list).reissued_second_bucket_id = b.second_bucket_id
        /\ \E i \in 1..Len(b.overflow_request_list) :
               heap[b.overflow_request_list[i]].initial_request_second_bucket_id
                   < b.second_bucket_id

\* the number of candidates the tick carries into the new head bucket
Candidates ==
    IF current_minute_bucket = <<>> THEN 0
    ELSE LET b == GetCurrentSecondBucket(current_minute_bucket[1])
         IN  Len(b.overflow_request_list) + Len(b.rate_limited_request_list)

C9_TickIssuesWhatInventoryAllows ==
    clock' = clock + 1 =>
        LET head == GetCurrentSecondBucket(current_minute_bucket'[1])
        IN  head.issued_ticket_count = Min2(head.ticket_count, Candidates)

\* C9: a tick issues min(ticket_count of the new head, number of carried-over
\* candidates) tickets and signals the waiter of each of them as part of that tick:
\* outside a tick no released ticket is left unsignalled.
C9_TickIssuesAndSignals ==
    /\ [][C9_TickIssuesWhatInventoryAllows]_vars
    /\ [](ticker.pc # "resume" => ticker.released = <<>>)

\* the caller is parked in get_ticket or wait_for_ticket_after_rate_limit_exceeded
\* and no copy of its ticket has been issued to it
ParkedUnissued(c) ==
    /\ caller[c].pc \in {"start_timer", "wait", "clear", "block"}
    /\ ~HasIssuedTicket(heap[caller[c].ticket])
    /\ Registered(c) => ~HasIssuedTicket(heap[WaiterOf(c).ticket])
    /\ \A i \in 1..Len(ticker.released) :
           heap[ticker.released[i]].request_id # RequestIdOf(c)

\* the step issues a ticket: a heap object gets its issuance fields set
IssuesTicket ==
    \E o \in DOMAIN heap' :
        /\ HasIssuedTicket(heap'[o])
        /\ o \in Objects => ~HasIssuedTicket(heap[o])

C10_StepWhilePaused ==
    is_paused_by_rate_limit_exception =>
        /\ ~IssuesTicket
        /\ \A c \in Callers : ParkedUnissued(c) => ParkedUnissued(c)'

\* C10: while is_paused_by_rate_limit_exception is set no step issues a ticket,
\* neither get_ticket nor a tick nor a minute rollover, and every caller parked
\* without an issued ticket stays parked.
C10_NoIssuanceWhilePaused == [][C10_StepWhilePaused]_vars

\* still paused after a tick and a minute rollover, with the rate-limited caller and
\* a caller that arrived during the pause both carried into the current bucket
C10_Witness ==
    /\ is_paused_by_rate_limit_exception
    /\ clock >= SecondsPerMinute
    /\ \E c, d \in Callers :
           /\ c # d
           /\ ParkedUnissued(c) /\ ParkedUnissued(d)
           /\ caller[c].in_call = "wait_for_ticket_after_rate_limit_exceeded"
           /\ caller[d].in_call = "get_ticket"
    /\ LET b == GetCurrentSecondBucket(current_minute_bucket[1])
       IN  b.rate_limited_request_list # <<>> /\ b.overflow_request_list # <<>>

\* ---- the pause and the probe ----------------------------------------------
\* C11: while is_paused_by_rate_limit_exception is set the current SecondBucket,
\* whether a tick or a minute rollover made it current, has ticket_count 0, so no
\* operation gives the current bucket inventory during a pause.
C11_PausedBucketHasNoInventory ==
    (is_paused_by_rate_limit_exception /\ current_minute_bucket # <<>>)
        => GetCurrentSecondBucket(current_minute_bucket[1]).ticket_count = 0

\* a minute rollover during a pause: the first bucket of a later minute is current,
\* has no inventory and has issued nothing although a rate-limited ticket was
\* carried into it
C11_Witness ==
    /\ is_paused_by_rate_limit_exception
    /\ current_minute_bucket # <<>>
    /\ LET m == current_minute_bucket[1]
           b == GetCurrentSecondBucket(m)
       IN  /\ m.start_time_in_seconds > 0
           /\ m.current_second_bucket_index = 0
           /\ b.ticket_count = 0
           /\ b.issued_ticket_count = 0
           /\ b.rate_limited_request_list # <<>>

\* the timer thread of the monitor is alive: it is inside a tick or the next tick
\* is scheduled
TickerAlive == ticker.pc \in {"idle", "resume"}

\* C12: once a probe has cleared the paused flag, with the ticks continuing and no
\* throttle report since, every ticket parked by a throttle report is eventually
\* issued and its caller resumed; stated by what it excludes: no caller of
\* wait_for_ticket_after_rate_limit_exceeded blocks for good after the pause.
C12_ParkedCallerResumedAfterPause ==
    (/\ ~is_paused_by_rate_limit_exception
     /\ service_test_delay # None
     /\ TickerAlive)
        => \A c \in Callers :
               caller[c].in_call = "wait_for_ticket_after_rate_limit_exceeded"
                   => ~Stuck(c)

\* a caller is about to start the first probe timer of a pause episode
EntersPause(c) == caller[c].pc = "start_timer"

\* C13: a probe that finds the upstream unblocked resets the probe interval to 10
\* seconds, so whenever the limiter is not paused the interval is 10 seconds and
\* the timer a throttle report starts for a new pause episode runs 10 seconds.
C13_IntervalResetAfterUnblock ==
    /\ ~is_paused_by_rate_limit_exception
           => service_test_interval = MIN_TEST_IF_SERVICE_RESUMED_INTERVAL
    /\ \A c \in Callers :
           EntersPause(c) => service_test_interval = MIN_TEST_IF_SERVICE_RESUMED_INTERVAL

\* a probe is pending, or the report that entered the pause is about to start one
ProbePending == probe_timers # <<>> \/ \E c \in Callers : EntersPause(c)

\* C14: a probe whose is-blocked predicate raises counts as still blocked (the
\* limiter stays paused, backs off and schedules another probe), so a paused
\* limiter always has a probe pending or running.
C14_PausedLimiterHasProbe == is_paused_by_rate_limit_exception => ProbePending

\* the probe timers that are pending or are about to be started
PendingProbeCount == Len(probe_timers) + Cardinality({c \in Callers : EntersPause(c)})

\* C15: a limiter has at most one probe timer pending at any time: only the throttle
\* report that moves it from not paused to paused starts one (and a probe that found
\* the upstream still blocked restarts it); a report made while the limiter is
\* already paused starts none.
C15_AtMostOneProbeTimer ==
    /\ PendingProbeCount <= 1
    /\ PendingProbeCount = 1 => is_paused_by_rate_limit_exception

\* two callers have reported a throttle in the same pause episode and one timer,
\* restarted by a probe that found the upstream still blocked, is pending
C15_Witness ==
    /\ is_paused_by_rate_limit_exception
    /\ probe_timers = <<BackOff(MIN_TEST_IF_SERVICE_RESUMED_INTERVAL)>>
    /\ \E c, d \in Callers :
           /\ c # d
           /\ caller[c].in_call = "wait_for_ticket_after_rate_limit_exceeded"
           /\ caller[d].in_call = "wait_for_ticket_after_rate_limit_exceeded"
           /\ ParkedUnissued(c) /\ ParkedUnissued(d)

\* ---- finished entries -------------------------------------------------------
\* the finished entries for a request id in the buckets of minute bucket m, as
\* (bucket position, list position) pairs; h is the heap the lists point into
FinishedEntries(m, h, request_id) ==
    {e \in (1..SecondsPerMinute) \X (1..Len(h)) :
        /\ e[2] <= Len(m.second_bucket_list[e[1]].finished_ticket_list)
        /\ h[m.second_bucket_list[e[1]].finished_ticket_list[e[2]]].request_id = request_id}

\* C16 as stated: a ticket, identified by its request id, that was passed to
\* return_ticket or to wait_for_ticket_after_rate_limit_exceeded has one finished
\* entry in all; checked here over the second buckets of the current minute, where
\* it excludes a second entry for the same request id.
C16_OneFinishedEntryPerTicket ==
    current_minute_bucket # <<>> =>
        \A request_id \in 0..next_request_index :
            Cardinality(FinishedEntries(current_minute_bucket[1], heap, request_id)) <= 1

\* the step is a call of return_ticket or wait_for_ticket_after_rate_limit_exceeded
\* by caller c
FinishCall(c) == caller[c].pc = "call" /\ caller'[c].pc # "call"

\* the step keeps the minute bucket (no rollover, no first bucket)
SameMinute ==
    /\ current_minute_bucket # <<>>
    /\ current_minute_bucket'[1].start_time_in_seconds
           = current_minute_bucket[1].start_time_in_seconds

C16_StepAddsOneEntryPerCall ==
    current_minute_bucket' # <<>> =>
        LET m == current_minute_bucket'[1]
            current == m.current_second_bucket_index + 1
        IN  \A request_id \in 0..next_request_index :
                LET before == IF SameMinute
                              THEN FinishedEntries(current_minute_bucket[1], heap, request_id)
                              ELSE {}
                    after == FinishedEntries(m, heap', request_id)
                IN  IF \E c \in Callers : FinishCall(c) /\ RequestIdOf(c) = request_id
                    THEN /\ before \subseteq after
                         /\ Cardinality(after) = Cardinality(before) + 1
                         /\ \A e \in after \ before : e[1] = current
                    ELSE after = before

\* C16 amended: every call of return_ticket or
\* wait_for_ticket_after_rate_limit_exceeded adds exactly one finished entry for the
\* request id of its ticket, in the bucket that is current at the call, and no other
\* step adds or removes a finished entry; so a ticket has one finished entry per
\* such call (two when it is throttled, reissued and then returned), not one in all.
C16_OneFinishedEntryPerCall == [][C16_StepAddsOneEntryPerCall]_vars

\* a ticket that was throttled, reissued and returned: its request id has a
\* finished entry in two buckets and its caller is done
C16_Witness ==
    /\ current_minute_bucket # <<>>
    /\ \E c \in Callers :
           /\ caller[c].pc = "done"
           /\ caller[c].in_call = "wait_for_ticket_after_rate_limit_exceeded"
           /\ heap[caller[c].ticket].rate_limit_event_list # <<>>
           /\ Cardinality({e[1] : e \in FinishedEntries(current_minute_bucket[1], heap,
                                                         RequestIdOf(c))}) = 2

\* ---- the wrapper's retry loop -----------------------------------------------
\* the wrapper has been through wait_for_ticket_after_rate_limit_exceeded at least once
RetriesAfterThrottle(c) == caller[c].attempt > 0

\* C17: after a 429/529 the wrapper makes its next attempt under the revived ticket
\* that wait_for_ticket_after_rate_limit_exceeded returned and acquires no other
\* ticket: a caller that retries after a throttle is never in or past a further
\* get_ticket, so each attempt consumes one issuance.
C17_RetryUsesRevivedTicket ==
    \A c \in Callers : RetriesAfterThrottle(c) => caller[c].in_call # "get_ticket"

\* ---- the ramp ---------------------------------------------------------------
\* the step is a tick (release_tickets or refresh_minute_bucket) of a limiter that
\* has a current bucket and is not paused
UnpausedTick ==
    /\ clock' = clock + 1
    /\ ~is_paused_by_rate_limit_exception

\* the bucket that was current before the step and the one that is current after it
PrevBucket == GetCurrentSecondBucket(current_minute_bucket[1])

NextBucket == GetCurrentSecondBucket(current_minute_bucket'[1])

InRampRange ==
    /\ NextBucket.ticket_count >= StartRampTicketCount(request_per_minute)
    /\ NextBucket.ticket_count <= MaxTicketsPerSecond(request_per_minute)

C18_RampStepAsStated ==
    UnpausedTick =>
        /\ InRampRange
        /\ PrevBucket.issued_ticket_count # MaxTicketsPerSecond(request_per_minute)
               => NextBucket.ticket_count
                      <= PrevBucket.issued_ticket_count
                             + RampTicketCountDelta(request_per_minute)

\* C18 as stated: for two consecutive second buckets of a limiter not paused at the
\* tick between them, next.ticket_count lies in [start_ramp, max/s] and is at most
\* prev.issued_ticket_count + delta unless prev.issued_ticket_count = max/s.
C18_RampLawAsStated == [][C18_RampStepAsStated]_vars

C18_RampStep ==
    UnpausedTick =>
        /\ InRampRange
        /\ PrevBucket.issued_ticket_count # MaxTicketsPerSecond(request_per_minute)
               => NextBucket.ticket_count
                      <= Max2(StartRampTicketCount(request_per_minute),
                              PrevBucket.issued_ticket_count
                                  + RampTicketCountDelta(request_per_minute))

\* C18 amended: for two consecutive second buckets of a limiter not paused at the
\* tick between them, next.ticket_count lies in [start_ramp, max/s] and is at most
\* max(start_ramp, prev.issued_ticket_count + delta) unless
\* prev.issued_ticket_count = max/s: the lower clamp wins over the step.
C18_RampLaw == [][C18_RampStep]_vars

\* after a tick of a limiter that is not paused the current bucket has start_ramp
\* tickets although the bucket before it issued fewer than start_ramp - delta
C18_Witness ==
    /\ current_minute_bucket # <<>>
    /\ ~is_paused_by_rate_limit_exception
    /\ LET m == current_minute_bucket[1]
           i == m.current_second_bucket_index
       IN  /\ i >= 1
           /\ m.second_bucket_list[i + 1].ticket_count = m.start_ramp_ticket_count
           /\ m.second_bucket_list[i].issued_ticket_count + m.ramp_ticket_count_delta
                  < m.start_ramp_ticket_count

\* the ramp parameters the limiter hands to its minute buckets
RampParameters ==
    LET m == current_minute_bucket[1]
    IN  <<m.max_tickets_per_second, m.start_ramp_ticket_count, m.ramp_ticket_count_delta>>

\* C19 as stated: a limiter constructed with 600 requests per minute has
\* max_tickets_per_second 10, start_ramp_ticket_count 3 and ramp_ticket_count_delta 1.
C19_Ramp600AsStated ==
    (request_per_minute = 600 /\ current_minute_bucket # <<>>)
        => RampParameters = <<10, 3, 1>>

\* C19 amended: a limiter constructed with 600 requests per minute has
\* max_tickets_per_second 10, start_ramp_ticket_count 2 (round(2.5) goes to the
\* even neighbour) and ramp_ticket_count_delta 1.
C19_Ramp600 ==
    (request_per_minute = 600 /\ current_minute_bucket # <<>>)
        => RampParameters = <<10, 2, 1>>

\* the monitor has started a limiter of 600 requests per minute: the first second
\* bucket holds start_ramp_ticket_count tickets and both callers have one
C19_Witness ==
    /\ request_per_minute = 600
    /\ current_minute_bucket # <<>>
    /\ current_minute_bucket[1].second_bucket_list[1].ticket_count
           = current_minute_bucket[1].start_ramp_ticket_count
    /\ current_minute_bucket[1].second_bucket_list[1].issued_ticket_count = 2

\* ---- the log ----------------------------------------------------------------
\* resume_request raised KeyError inside a tick (C6)
TickerEndedByKeyError == ticker.pc = "crashed"

\* C20: an I/O error of the log write during a tick or minute rollover does not
\* propagate: the tick completes and the next tick is scheduled, so the timer thread
\* of a started monitor stays alive (apart from the KeyError of resume_request).
C20_TicksSurviveLogFailure ==
    (started /\ ~TickerEndedByKeyError) => TickerAlive

\* ---- stopping the monitor -----------------------------------------------------
\* the step runs a tick: add_tickets advances the clock of the model
TickRuns == clock' = clock + 1

C21_StepAfterStop ==
    stop_returned =>
        /\ ~TickRuns
        /\ current_minute_bucket' # <<>> /\ current_minute_bucket # <<>>
               => /\ current_minute_bucket'[1].start_time_in_seconds
                         = current_minute_bucket[1].start_time_in_seconds
                  /\ current_minute_bucket'[1].current_second_bucket_index
                         = current_minute_bucket[1].current_second_bucket_index

\* C21: after stop() has returned the tick timer is cancelled: no further tick
\* runs and the limiter's bucket is not advanced, also when stop() ran while a tick
\* was in progress on the timer thread.
C21_NoTickAfterStop == [][C21_StepAfterStop]_vars

\* ---- what the ticket records of a minute show -------------------------------
\* the elements of a list
Range(list) == {list[i] : i \in DOMAIN list}

\* the ticket records held in the lists of the current minute bucket
MinuteRecords ==
    UNION {Range(b.issued_ticket_list) \cup Range(b.overflow_request_list)
               \cup Range(b.rate_limited_request_list) \cup Range(b.finished_ticket_list)
           : b \in SecondBuckets}

\* the second ids of the current minute bucket
MinuteSeconds == {b.second_bucket_id : b \in SecondBuckets}

RECURSIVE SumOfIssuedCounts(_, _)
SumOfIssuedCounts(m, i) ==
    IF i = 0 THEN 0
    ELSE m.second_bucket_list[i].issued_ticket_count + SumOfIssuedCounts(m, i - 1)

\* the sum of issued_ticket_count over the second buckets of the current minute
MinuteIssuedCount ==
    IF current_minute_bucket = <<>> THEN 0
    ELSE SumOfIssuedCounts(current_minute_bucket[1], SecondsPerMinute)

\* the records of the minute whose issued_second_bucket_id lies in the minute
IssuedInMinute == {o \in MinuteRecords : heap[o].issued_second_bucket_id \in MinuteSeconds}

\* the records in the minute's issued lists whose issuance a throttle report cleared
ClearedAfterIssue ==
    {o \in UNION {Range(b.issued_ticket_list) : b \in SecondBuckets} :
        /\ heap[o].issued_second_bucket_id = None
        /\ heap[o].rate_limit_event_list # <<>>}

\* C22 as stated: in a minute bucket the sum of issued_ticket_count over the second
\* buckets equals the number of ticket records of the minute whose
\* issued_second_bucket_id falls inside the minute.
C22_IssuedSumMatchesTicketsAsStated ==
    MinuteIssuedCount = Cardinality(IssuedInMinute)

\* C22 amended: in a minute bucket the sum of issued_ticket_count over the second
\* buckets equals the number of ticket records whose issued_second_bucket_id falls
\* inside the minute plus the number of records in the issued lists whose issuance
\* fields a later throttle report has cleared; a record in an issued list that
\* still has its issuance carries the id of that bucket.
C22_IssuedSumMatchesTickets ==
    /\ MinuteIssuedCount = Cardinality(IssuedInMinute) + Cardinality(ClearedAfterIssue)
    /\ \A b \in SecondBuckets : \A o \in Range(b.issued_ticket_list) :
           \/ heap[o].issued_second_bucket_id = b.second_bucket_id
           \/ o \in ClearedAfterIssue

\* a minute in which a ticket was issued, throttled and reissued: its first record
\* has lost its issuance and its copy carries the second of the reissue
C22_Witness ==
    /\ ClearedAfterIssue # {}
    /\ \E o \in IssuedInMinute :
           /\ heap[o].rate_limit_event_list # <<>>
           /\ Last(heap[o].rate_limit_event_list).reissued_second_bucket_id \in MinuteSeconds

\* ---- rate-limit events ------------------------------------------------------
\* the RateLimitedEvents of all ticket records, with the record that holds them
RateLimitedEvents ==
    {<<o, i>> \in Objects \X (1..(2 * RetryBudget)) :
        i <= Len(heap[o].rate_limit_event_list)}

EventOf(e) == heap[e[1]].rate_limit_event_list[e[2]]

\* C23: every RateLimitedEvent a throttle report appends records, as
\* second_bucket_ticket_was_issued, the second in which the ticket had been issued
\* before the report: it is a second id, not later than the second of the report.
C23_EventRecordsIssuedSecond ==
    \A e \in RateLimitedEvents :
        /\ EventOf(e).second_bucket_ticket_was_issued # None
        /\ EventOf(e).second_bucket_ticket_was_issued
               <= EventOf(e).second_bucket_ticket_was_limited

\* the minute a second id falls in
MinuteOfSecond(second_bucket_id) == second_bucket_id \div SecondsPerMinute

\* C24: every RateLimitedEvent on any ticket record was limited in a second not
\* before the ticket's initial request second, and once its reissue second is
\* set, the reissue second is strictly later than the limited second; this
\* includes reissues in the minute after the one of the throttle.
C24_EventSecondsOrdered ==
    \A e \in RateLimitedEvents :
        /\ EventOf(e).second_bucket_ticket_was_limited
               >= heap[e[1]].initial_request_second_bucket_id
        /\ EventOf(e).reissued_second_bucket_id # None
               => EventOf(e).reissued_second_bucket_id
                      > EventOf(e).second_bucket_ticket_was_limited

\* a throttled ticket was reissued in the minute after the one of its throttle
C24_Witness ==
    \E e \in RateLimitedEvents :
        /\ EventOf(e).reissued_second_bucket_id # None
        /\ MinuteOfSecond(EventOf(e).reissued_second_bucket_id)
               > MinuteOfSecond(EventOf(e).second_bucket_ticket_was_limited)

\* ---- the lock and the Waiters ---------------------------------------------
\* the caller is inside WaitingTicket.wait and its event is not set
BlockedOnWaiter(c) ==
    /\ caller[c].pc = "block"
    /\ ~waiting_ticket_dict[heap[caller[c].ticket].request_id].event

\* the holder of the lock is not stopped: it is at the with block it entered
\* and none of its statements waits, or it is through and can release the lock
CanProceed(th) ==
    \/ Holding(th) /\ WantsLock(th)
    \/ BlockEnded(th)

C25_StepOutsideLock ==
    /\ Signal => lock.holder # TickerThread
    /\ \A c \in Callers : (EventClear(c) \/ EventWait(c)) => lock.holder # c

C25_NoWaitOrSignalUnderLock == [][C25_StepOutsideLock]_vars

TicketsOf(list, h) == [i \in DOMAIN list |-> h[list[i]]]

\* a minute bucket as a value: its fields, its second buckets with their
\* counters, and in every list the tickets with their fields and events
Structure(m, h) ==
    [m EXCEPT !.second_bucket_list =
        [i \in DOMAIN @ |->
            [@[i] EXCEPT !.issued_ticket_list = TicketsOf(@, h),
                         !.overflow_request_list = TicketsOf(@, h),
                         !.rate_limited_request_list = TicketsOf(@, h),
                         !.finished_ticket_list = TicketsOf(@, h)]]]

\* to_json followed by from_dict
RoundTrip(m, h) == MinuteFromJson(MinuteToJson(m, h))

LastSecondIndex == SecondsPerMinute - 1

\* a tick of a started monitor: while the minute's current index is below the
\* last one the tick is a release_tickets that advances it by one in the same
\* minute; at the last index the tick is a refresh_minute_bucket that installs
\* a new minute with index 0
C27_TickStep ==
    (TickRuns /\ current_minute_bucket # <<>>) =>
        LET m == current_minute_bucket[1]
            n == current_minute_bucket'[1]
        IN  IF m.current_second_bucket_index = LastSecondIndex
            THEN /\ n.start_time_in_seconds # m.start_time_in_seconds
                 /\ n.current_second_bucket_index = 0
            ELSE /\ n.start_time_in_seconds = m.start_time_in_seconds
                 /\ n.current_second_bucket_index = m.current_second_bucket_index + 1

\* between ticks the minute's current index is the monitor's second index - 1
C27_BetweenTicks ==
    (current_minute_bucket # <<>> /\ ticker.pc \in {"idle", "log_failed", "cancelled"}) =>
        current_minute_bucket[1].current_second_bucket_index = second_bucket_index - 1

\* C27: after start the ticks have the period of a minute: every tick but the
\* last of a minute calls release_tickets and advances the minute's current
\* index by exactly one, the last calls refresh_minute_bucket; the index is
\* never advanced while at its last value, and between ticks it equals the
\* monitor's second index - 1.
C27_TickPeriod == [](C27_BetweenTicks) /\ [][C27_TickStep]_vars

\* a whole minute of ticks has run: the monitor is in the second minute and
\* has advanced that minute's index
C27_Witness ==
    /\ current_minute_bucket # <<>>
    /\ current_minute_bucket[1].start_time_in_seconds = SecondsPerMinute
    /\ current_minute_bucket[1].current_second_bucket_index = 1
    /\ ticker.pc = "idle"

\* ---- the first second of a new minute ----------------------------------------
\* the step is a tick that retires the minute bucket
Rollover ==
    /\ TickRuns
    /\ current_minute_bucket # <<>>
    /\ ~SameMinute

C28_RolloverStep ==
    Rollover =>
        /\ NextBucket.second_bucket_id = current_minute_bucket'[1].start_time_in_seconds
        /\ NextBucket.ticket_count =
               IF is_paused_by_rate_limit_exception THEN 0
               ELSE Max2(StartRampTicketCount(request_per_minute),
                         PrevBucket.issued_ticket_count)

\* C28: at a minute rollover the first SecondBucket of the new minute gets
\* ticket_count 0 if the limiter is paused, otherwise the larger of
\* start_ramp_ticket_count and the issued_ticket_count of the bucket that was
\* current in the retiring minute.
C28_FirstBucketCarriesOver == [][C28_RolloverStep]_vars

\* a rollover has carried over more than the start of the ramp: the new minute
\* is in its first second, unpaused, with an inventory above start_ramp_ticket_count
C28_Witness ==
    /\ current_minute_bucket # <<>>
    /\ current_minute_bucket[1].start_time_in_seconds = SecondsPerMinute
    /\ current_minute_bucket[1].current_second_bucket_index = 0
    /\ GetCurrentSecondBucket(current_minute_bucket[1]).ticket_count
           > StartRampTicketCount(request_per_minute)

\* ---- the ramp under full demand ------------------------------------------------
\* the ticket_count, and with full demand the issued count, of the second that
\* comes k seconds after a cold start: the ramp from start_ramp_ticket_count in
\* steps of ramp_ticket_count_delta, capped at max_tickets_per_second
RampValue(rpm, k) ==
    Min2(StartRampTicketCount(rpm) + k * RampTicketCountDelta(rpm), MaxTicketsPerSecond(rpm))

\* the limiter has 10 tickets per second, a ramp that starts at 3 and a delta of 1
ExampleRamp ==
    /\ MaxTicketsPerSecond(request_per_minute) = 10
    /\ StartRampTicketCount(request_per_minute) = 3
    /\ RampTicketCountDelta(request_per_minute) = 1

\* C29: from a cold start, with callers that take every ticket of every second
\* and no throttling, the issued counts of successive seconds are start_ramp,
\* start_ramp + delta, start_ramp + 2 * delta, ... capped at max/s, and stay at
\* max/s in every later second, also after a minute rollover; with max/s 10,
\* start 3 and delta 1 they are 3, 4, 5, 6, 7, 8, 9, 10 and then 10 per second.
C29_RampUnderFullDemand ==
    demand # <<>> =>
        /\ demand[1].ticket_count = RampValue(request_per_minute, demand[1].second)
        /\ ExampleRamp =>
               demand[1].ticket_count =
                   IF demand[1].second <= 7 THEN 3 + demand[1].second ELSE 10

\* the example limiter issues 10 per second in the first second of its second minute
C29_Witness ==
    /\ demand # <<>>
    /\ ExampleRamp
    /\ demand[1].second = SECONDS_IN_MINUTE
    /\ demand[1].ticket_count = 10

\* ---- the intervals of the probes ------------------------------------------------
\* C30: in a pause episode that starts from the initial interval, with the
\* upstream found blocked on consecutive probes, the probes are scheduled after
\* 10, 15 and 22 seconds: every pending probe timer of less than 23 seconds has
\* one of these intervals (in milliseconds).
C30_ProbesAfter10And15And22Seconds ==
    \A i \in DOMAIN probe_timers :
        probe_timers[i] < 23000 => probe_timers[i] \in {10000, 15000, 22000}

\* ---- the probe interval -------------------------------------------------------
\* the interval and every pending probe timer lie between 10 and 65 seconds
C31_IntervalInRange ==
    /\ service_test_interval >= 10000
    /\ service_test_interval <= 65000
    /\ \A i \in DOMAIN probe_timers : probe_timers[i] >= 10000 /\ probe_timers[i] <= 65000

\* a step that changes the interval multiplies it by 1.5, caps it at 65 seconds
\* and starts a probe timer with the new interval
C31_BackOffStep ==
    service_test_interval' # service_test_interval =>
        /\ service_test_interval' = Min2((3 * service_test_interval) \div 2, 65000)
        /\ probe_timers' # <<>>
        /\ Last(probe_timers') = service_test_interval'

\* C31: each probe that finds the upstream still blocked sets the probe interval
\* to min(1.5 x previous interval, 65 s) and schedules the next probe with it; in
\* every reachable state the interval is at least 10 s and at most 65 s.
C31_IntervalLaw == [](C31_IntervalInRange) /\ [][C31_BackOffStep]_vars

\* the interval has reached its cap and a probe is pending with it
C31_Witness ==
    /\ service_test_interval = MAX_TEST_IF_SERVICE_RESUMED_INTERVAL
    /\ probe_timers = <<MAX_TEST_IF_SERVICE_RESUMED_INTERVAL>>

\* ---- past second buckets -----------------------------------------------------
\* the positions in second_bucket_list the current index has advanced past
PastBuckets ==
    IF current_minute_bucket = <<>> THEN {}
    ELSE 1..current_minute_bucket[1].current_second_bucket_index

\* C32: once a MinuteBucket's current index has advanced past a SecondBucket,
\* nothing about that bucket changes any more: a step that stays in the minute
\* leaves its counters, the membership of its four lists and the field values of
\* the ticket records in those lists unchanged.
C32_PastBucketFrozen ==
    [][SameMinute =>
          \A i \in PastBuckets :
              Structure(current_minute_bucket'[1], heap').second_bucket_list[i]
                  = Structure(current_minute_bucket[1], heap).second_bucket_list[i]]_vars

\* ---- tickets issued in one minute ----------------------------------------------
\* C33: for every configured requests-per-minute R >= 1, the total number of
\* tickets issued within any one MinuteBucket (the sum of issued_ticket_count
\* over its 60 second buckets) never exceeds R.
C33_MinuteIssuesAtMostR ==
    demand # <<>> => demand[1].minute_issued_ticket_count <= request_per_minute

\* ---- a limiter in the monitor's list has a minute bucket ------------------------
\* the step is a tick that calls release_tickets on the limiter
TickCallsReleaseTickets ==
    /\ TickRuns
    /\ SecondIndex(second_bucket_index) # 0

\* the step is a caller's get_ticket
CallerCallsGetTicket == next_request_index' # next_request_index

\* the timer thread has ended in release_tickets without scheduling the next tick
TickerEndedByAttributeError == ticker.pc = "release_failed"

\* C34: every limiter in the monitor's list has a current MinuteBucket whenever a
\* tick calls release_tickets on it or a caller calls get_ticket on it, including
\* a limiter that was constructed, and so registered, after the monitor was
\* started; a tick therefore never fails on a limiter and always schedules the
\* next tick.
C34_RegisteredLimiterHasBucket ==
    /\ [][TickCallsReleaseTickets \/ CallerCallsGetTicket
              => current_minute_bucket # <<>>]_vars
    /\ [](~TickerEndedByAttributeError)

\* ---- carry-over -----------------------------------------------------------------
\* the step is a tick that carries the waiting tickets of the retiring second
\* bucket over to the new current one
CarryOver ==
    /\ TickRuns
    /\ current_minute_bucket # <<>>
    /\ current_minute_bucket' # <<>>

\* how many entries of list are records of the request
Occurrences(list, h, request_id) ==
    Cardinality({i \in DOMAIN list : h[list[i]].request_id = request_id})

RequestIds(list, h) == {h[list[i]].request_id : i \in DOMAIN list}

\* in how many entries of the issued, overflow and rate-limited lists of the bucket
\* the request appears
OccurrencesInBucket(b, h, request_id) ==
    Occurrences(b.issued_ticket_list, h, request_id)
        + Occurrences(b.overflow_request_list, h, request_id)
        + Occurrences(b.rate_limited_request_list, h, request_id)

C35_CarryOverStep ==
    CarryOver =>
        /\ \A id \in RequestIds(PrevBucket.overflow_request_list, heap) :
               /\ OccurrencesInBucket(NextBucket, heap', id) = 1
               /\ id \notin RequestIds(NextBucket.rate_limited_request_list, heap')
        /\ \A id \in RequestIds(PrevBucket.rate_limited_request_list, heap) :
               /\ OccurrencesInBucket(NextBucket, heap', id) = 1
               /\ id \notin RequestIds(NextBucket.overflow_request_list, heap')
        /\ Len(NextBucket.issued_ticket_list) + Len(NextBucket.overflow_request_list)
               + Len(NextBucket.rate_limited_request_list)
           = Len(PrevBucket.overflow_request_list)
               + Len(PrevBucket.rate_limited_request_list)
        /\ NextBucket.finished_ticket_list = <<>>

\* C35: carry-over loses and duplicates nothing: at every tick and minute
\* rollover, each ticket in the retiring bucket's overflow and rate-limited lists
\* appears exactly once in the new head bucket, in exactly one of its issued,
\* overflow or rate-limited lists (an overflow candidate never lands in
\* rate-limited or vice versa), and nothing else is added by the transfer.
C35_CarryOverKeepsEveryTicket == [][C35_CarryOverStep]_vars

\* a ticket was throttled and reissued by a carry-over, and later a minute
\* rollover carried an overflow candidate and a rate-limited ticket over, each
\* into its own list of the new head bucket
C35_Witness ==
    /\ current_minute_bucket # <<>>
    /\ current_minute_bucket[1].current_second_bucket_index = 0
    /\ clock > 0
    /\ \E e \in RateLimitedEvents : EventOf(e).reissued_second_bucket_id # None
    /\ LET b == GetCurrentSecondBucket(current_minute_bucket[1])
       IN  /\ b.second_requested_ticket_count = 0
           /\ b.overflow_request_list # <<>>
           /\ b.rate_limited_request_list # <<>>

\* ---- how a call through the wrapper ends ----------------------------------------
\* the wrapper call of the caller got a ticket from get_ticket and has ended by
\* raising
WrapperRaised(c) ==
    /\ caller[c].pc = "raised"
    /\ caller[c].in_call # "none"

\* every attempt of the caller was throttled
AllAttemptsThrottled(c) == caller[c].attempt >= RetryBudget

\* C36: a call through the llmiter wrapper always ends either by returning the
\* wrapped function's result or by raising the exception the wrapped function
\* raised; in particular, when all attempts fail with 429/529 the wrapper stops
\* after the last attempt and raises that throttle failure to its caller.
C36_WrapperReturnsOrReraises ==
    \A c \in Callers :
        WrapperRaised(c) =>
            /\ caller[c].raised \in {"exception of the function", "throttle failure"}
            /\ AllAttemptsThrottled(c) => caller[c].raised = "throttle failure"

====
